---- MODULE Spec2Model ----
(***************************************************************************)
(* MakeItParquet: the conversion scheduler                                 *)
(* (BaseConversionManager._start_conversion_process), the resolution of    *)
(* the output extension (command line, prompts, Settings) and the pieces   *)
(* of the conversion managers they touch.                                  *)
(*                                                                         *)
(* Files are numbered by their position in the inventory (1 is the first   *)
(* file put on the import queue).  The storage engine is outside the       *)
(* repository: import_file and export_file either return or raise, which   *)
(* the model draws with \E ok \in BOOLEAN; every call the scheduler issues *)
(* to it is appended to `calls`, every logger call to `log`.               *)
(***************************************************************************)
EXTENDS Integers, Sequences, FiniteSets, TLC

\* ------------------------------------------------------------------ bounds
\* Largest inventory (number of files on the import queue at the start).
MaxFiles == 3
\* Largest directory (number of files os.scandir yields).
MaxDirFiles == 4
\* Largest file size.
MaxFileSize == 2
\* Longest text handed to the alias renamer (the named examples are longer).
MaxTextLen == 4
\* Most rows of a query handed to export_excel.
MaxRows == 6

\* ------------------------------------------------------- extension mapping
None == "None"

\* The formats a user can type that the model draws answers from: three
\* aliases of Settings.ALIAS_TO_EXTENSION_MAP and one unsupported word.
Answers == {"csv", "js", "pq", "bogus"}

\* Settings.ALIAS_TO_EXTENSION_MAP (src/cli_interface.py:124-135).
ALIAS_TO_EXTENSION_MAP ==
    [a \in {"csv", "txt", "tsv", "json", "js", "parquet", "pq", "excel", "ex", "xls"} |->
        CASE a = "csv" -> ".csv"
          [] a = "txt" -> ".txt"
          [] a = "tsv" -> ".tsv"
          [] a \in {"json", "js"} -> ".json"
          [] a \in {"parquet", "pq"} -> ".parquet"
          [] a \in {"excel", "ex", "xls"} -> ".xlsx"]

Aliases == DOMAIN ALIAS_TO_EXTENSION_MAP

\* ------------------------------------------------------------------- state
VARIABLES
    inventory,      \* the files the import queue is populated with, in order
    import_queue,   \* self.import_queue (queue.Queue, FIFO)
    export_queue,   \* self.export_queue (queue.Queue, FIFO) of export items
    unfinished,     \* unfinished_tasks of the two queues (put / task_done)
    input_ext,      \* conversion_manager.input_ext
    output_ext,     \* conversion_manager.output_ext (None until resolved)
    mode,           \* local `mode` of _start_conversion_process
    pc,             \* position of the scheduler in _start_conversion_process
    file_info,      \* local `file_info` between a balanced import and its export
    calls,          \* calls issued to the storage engine, in order
    log,            \* logger calls of the scheduler, in order
    prompt_pc,      \* position of the output-format resolver
    prompt_input_ext, \* local `input_ext` of Settings.prompt_for_output_format
    prompt_flags,   \* output_format_from_prompt_flag, input_ext_from_prompt_flag
    resolved_at,    \* history: where the scheduler stood when output_ext was stored
                    \* ("cli": passed on the command line, "never": not stored yet)
    \* Settings of Make_It_Parquet/user_interface/settings.py and the prompt of
    \* Make_It_Parquet/user_interface/prompts.py
    supplied_input_ext,   \* Settings.supplied_input_ext
    supplied_output_ext,  \* Settings.supplied_output_ext
    detected_input_ext,   \* Settings.detected_input_ext
    ext_prompt_pc,        \* position of prompt_for_output_extension
    ext_prompt_input_ext, \* its parameter input_ext
    \* Settings of user_interface/settings.py, FileConversionManager of
    \* Make_It_Parquet/conversion_manager.py, prompt of user_interface/interactive.py
    settings_input_ext,   \* Settings.input_ext
    settings_output_ext,  \* Settings.output_ext
    input_output_flags,   \* Settings.input_output_flags
    file_extension,       \* file_info_dict["file_extension"]
    manager_pc,           \* position in FileConversionManager.__init__
    manager_input_ext,    \* FileConversionManager.input_ext
    manager_output_ext,   \* FileConversionManager.output_ext
    interactive_input_ext,  \* local input_ext of interactive.prompt_for_output_format
    interactive_output_ext, \* local output_ext of interactive.prompt_for_output_format
    \* The directory managers: DirectoryManager of Make_It_Parquet/file_manager.py,
    \* DirectoryConversionManager of Make_It_Parquet/conversion_manager.py and
    \* DirectoryConversionManager of conversion_manager.py
    dm_class,               \* which of the three classes is constructed
    dm_settings_input_ext,  \* settings.input_ext: the input format of the command line
    directory,              \* the files os.scandir yields, in scan order
    extension_counts,       \* extension_counts: <<extension, count>> in dict order
    extension_file_groups,  \* extension_file_groups / file_groups
    dm_input_ext,           \* the manager's input_ext
    dm_output_ext,          \* the manager's output_ext
    conversion_file_list,   \* conversion_file_list / file_dictionary
    dm_prompted,            \* extension answered at the input-format prompt (None: not asked)
    dm_auto_flag,           \* the auto-detected flag of the settings
    dm_import_queue,        \* the manager's import_queue
    dm_pc,                  \* position in the constructor
    \* DirectoryPathManager of path_manager.py
    pm_suffixes,            \* suffixes of the files directory.iterdir() yields, in order
    pm_input_name,          \* input_name: the name of the directory
    pm_output_ext,          \* output_ext
    pm_input_alias,         \* input_alias
    pm_output_name,         \* output_name
    pm_pc,                  \* position in DirectoryPathManager.__init__
    \* calls of BasePathManager._replace_alias_in_string
    rn_text,                \* text
    rn_old_alias,           \* old_alias
    rn_new_alias,           \* new_alias
    rn_result,              \* what the call returned
    rn_back,                \* what the call with the aliases exchanged returned for rn_result
    rn_pc,                  \* which calls have been made
    \* export_excel of conversions.py and excel_utils.py, process_file of DuckConvert.py
    ex_function,            \* which of the three functions is called
    ex_files,               \* the paths that exist in the output directory
    ex_row_count,           \* rows the query yields
    ex_row_limit,           \* row_limit
    ex_margin,              \* margin
    ex_part,                \* loop variable `part`
    ex_written,             \* the files written, in order: path, rows, whether the path existed
    ex_pc,                  \* position in the function
    \* ConversionData of Make_It_Parquet/conversion_data.py
    st_handles,             \* the ConversionData instances of the run: file name, table_name
    \* main() of Make_It_Parquet/main.py, Make_It_Parquet/make_it_parquet.py, make_it_parquet.py
    mp_module,              \* which of the three modules runs
    mp_input_kind,          \* file_or_directory of the input path
    mp_condition,           \* the fatal condition the run meets ("none": it completes)
    mp_files,               \* files of the run
    mp_skipped,             \* files skipped with a logged error
    mp_log,                 \* logger calls of exit_program: <<level, message>>
    mp_exit_code,           \* exit code of the process (None while it runs)
    mp_pc,                  \* position in main()
    \* get_input_output_extensions of user_interface/cli_parser.py with the
    \* InputOutputFlags of user_interface/settings.py, and
    \* Settings._validate_format_inputs of cli_interface.py
    cli_function,           \* which of the two functions validates the formats
    cli_input_format,       \* args.input_format
    cli_output_format,      \* args.output_format
    cli_input_ext,          \* the input extension returned
    cli_output_ext,         \* the output extension returned
    cli_flags,              \* the InputOutputFlags instance
    cli_root_flags,         \* input_ext_cli_flag, output_ext_cli_flag of cli_interface.Settings
    cli_pc,                 \* "new" before the validation, "validated" after
    fl_environment,         \* environment of the last set_flags call (None: no call yet)
    fl_input_ext,           \* its input_ext
    fl_output_ext,          \* its output_ext
    fl_before,              \* the flags before that call
    fl_raised,              \* the exception that call raised (None: it returned)
    \* ConversionData.generate_output_path of Make_It_Parquet/conversion_data.py
    cd_input_key,           \* input_key
    cd_output_key,          \* output_key
    cd_input_path,          \* input_path: parent and name
    cd_output_path,         \* the path returned (None before the call)
    cd_pc,                  \* "new" before the call, "done" after
    \* BaseConversionManager._generate_export_class of conversion_manager.py
    export_class            \* self.export_class (None before the call, "ValueError": it raised)

sched_vars == <<inventory, import_queue, export_queue, unfinished, mode, pc,
                file_info, calls, log>>
prompt_vars == <<prompt_pc, prompt_input_ext, prompt_flags>>
scheduler_vars == <<inventory, import_queue, export_queue, unfinished, input_ext,
                    output_ext, mode, pc, file_info, calls, log, prompt_pc,
                    prompt_input_ext, prompt_flags, resolved_at>>
settings_vars == <<supplied_input_ext, supplied_output_ext, detected_input_ext,
                   ext_prompt_pc, ext_prompt_input_ext>>
manager_vars == <<settings_input_ext, settings_output_ext, input_output_flags,
                  file_extension, manager_pc, manager_input_ext, manager_output_ext,
                  interactive_input_ext, interactive_output_ext>>
directory_vars == <<dm_class, dm_settings_input_ext, directory, extension_counts, extension_file_groups,
                    dm_input_ext, dm_output_ext, conversion_file_list, dm_prompted,
                    dm_auto_flag, dm_import_queue, dm_pc>>
path_vars == <<pm_suffixes, pm_input_name, pm_output_ext, pm_input_alias,
               pm_output_name, pm_pc>>
rename_vars == <<rn_text, rn_old_alias, rn_new_alias, rn_result, rn_back, rn_pc>>
excel_vars == <<ex_function, ex_files, ex_row_count, ex_row_limit, ex_margin, ex_part,
                ex_written, ex_pc>>
staging_vars == <<st_handles>>
exit_vars == <<mp_module, mp_input_kind, mp_condition, mp_files, mp_skipped, mp_log,
               mp_exit_code, mp_pc>>
cli_vars == <<cli_function, cli_input_format, cli_output_format, cli_input_ext,
              cli_output_ext, cli_flags, cli_root_flags, cli_pc, fl_environment,
              fl_input_ext, fl_output_ext, fl_before, fl_raised>>
output_path_vars == <<cd_input_key, cd_output_key, cd_input_path, cd_output_path, cd_pc>>
export_vars == <<export_class>>
later_vars == <<excel_vars, staging_vars, exit_vars, cli_vars, output_path_vars, export_vars>>
earlier_vars == <<scheduler_vars, settings_vars, manager_vars, directory_vars, path_vars,
                  rename_vars>>
vars == <<earlier_vars, later_vars>>

\* What each component leaves alone.
outside_scheduler == <<settings_vars, manager_vars, directory_vars, path_vars, rename_vars, later_vars>>
outside_settings == <<scheduler_vars, manager_vars, directory_vars, path_vars, rename_vars, later_vars>>
outside_manager == <<scheduler_vars, settings_vars, directory_vars, path_vars, rename_vars, later_vars>>
outside_directory == <<scheduler_vars, settings_vars, manager_vars, path_vars, rename_vars, later_vars>>
outside_path == <<scheduler_vars, settings_vars, manager_vars, directory_vars, rename_vars, later_vars>>
outside_excel == <<earlier_vars, staging_vars, exit_vars, cli_vars, output_path_vars, export_vars>>
outside_staging == <<earlier_vars, excel_vars, exit_vars, cli_vars, output_path_vars, export_vars>>
outside_exit == <<earlier_vars, excel_vars, staging_vars, cli_vars, output_path_vars, export_vars>>
outside_cli == <<earlier_vars, excel_vars, staging_vars, exit_vars, output_path_vars, export_vars>>
outside_output_path == <<earlier_vars, excel_vars, staging_vars, exit_vars, cli_vars, export_vars>>
outside_export == <<earlier_vars, excel_vars, staging_vars, exit_vars, cli_vars,
                    output_path_vars>>
outside_rename == <<scheduler_vars, settings_vars, manager_vars, directory_vars, path_vars, later_vars>>

\* ------------------------------------------------------------ queue.Queue
\* Queue.get(): the oldest item, and the queue without it.
QueueGetLast(q) == [item |-> q[Len(q)], rest |-> SubSeq(q, 1, Len(q) - 1)]
QueueGet(q) == [item |-> Head(q), rest |-> Tail(q)]

\* Queue.put(item): the item joins at the back.
QueuePut(q, item) == Append(q, item)

\* ------------------------------------------------------- engine and logger
ImportCall(f, ok) == [op |-> "import", file |-> f, ok |-> ok, ext |-> None]
ExportCall(item, ok) ==
    [op |-> "export", file |-> item.file_info, ok |-> ok, ext |-> item.output_extension]

Info(msg, f) == <<"info", msg, f>>
Error(msg, f) == <<"error", msg, f>>

\* -------------------------------------------------------------------- Init
\* State after the manager's constructor: the import queue pre-populated in
\* inventory order, the export queue empty, output_ext the extension passed on
\* the command line or None.
InitScheduler ==
    /\ \E n \in 0..MaxFiles : inventory = [i \in 1..n |-> i]
    /\ import_queue = inventory
    /\ export_queue = <<>>
    /\ unfinished = [imp |-> Len(inventory), exp |-> 0]
    /\ input_ext \in {".csv", ".json"}
    /\ output_ext \in {None, ".csv", ".parquet"}
    /\ mode = "none"
    /\ pc = "start"
    /\ file_info = 0
    /\ calls = <<>>
    /\ log = <<>>
    /\ prompt_pc = "idle"
    /\ prompt_input_ext = None
    /\ prompt_flags = [output |-> 0, input |-> 0]
    /\ resolved_at = IF output_ext = None THEN "never" ELSE "cli"

\* The scheduler at rest, for the specifications of the other components.
IdleScheduler ==
    /\ inventory = <<>>
    /\ import_queue = <<>>
    /\ export_queue = <<>>
    /\ unfinished = [imp |-> 0, exp |-> 0]
    /\ input_ext = None
    /\ output_ext = None
    /\ mode = "none"
    /\ pc = "start"
    /\ file_info = 0
    /\ calls = <<>>
    /\ log = <<>>
    /\ prompt_pc = "idle"
    /\ prompt_input_ext = None
    /\ prompt_flags = [output |-> 0, input |-> 0]
    /\ resolved_at = "never"

\* ------------------------------------------------ _start_conversion_process
\* line 146: mode = "bulk_import".
StartConversionProcess ==
    /\ pc = "start"
    /\ mode' = "bulk_import"
    /\ pc' = "loop"
    /\ UNCHANGED <<inventory, import_queue, export_queue, unfinished, file_info,
                   calls, log, input_ext, output_ext, resolved_at>>
    /\ UNCHANGED prompt_vars
    /\ UNCHANGED outside_scheduler

\* line 148: the outer while test, and the dispatch on mode.
LoopTest ==
    /\ pc = "loop"
    /\ IF import_queue = <<>> /\ export_queue = <<>>
       THEN pc' = "done" /\ log' = log
       ELSE CASE mode = "bulk_import" -> pc' = "bulk_test" /\ log' = log
              [] mode = "draining" ->
                    /\ pc' = "drain"
                    /\ log' = Append(log, Info("Output extension received. Draining the export queue...", 0))
              [] mode = "balanced" -> pc' = "balanced" /\ log' = log
    /\ UNCHANGED <<inventory, import_queue, export_queue, unfinished, mode, file_info,
                   calls, input_ext, output_ext, resolved_at>>
    /\ UNCHANGED prompt_vars
    /\ UNCHANGED outside_scheduler

\* line 151: the inner while test of the bulk import.
BulkTestIgnoresExt ==
    /\ pc = "bulk_test"
    /\ pc' = IF import_queue # <<>> THEN "bulk_body" ELSE "bulk_check"
    /\ UNCHANGED <<inventory, import_queue, export_queue, unfinished, mode, file_info,
                   calls, log, input_ext, output_ext, resolved_at>>
    /\ UNCHANGED prompt_vars
    /\ UNCHANGED outside_scheduler

BulkTest ==
    /\ pc = "bulk_test"
    /\ pc' = IF import_queue # <<>> /\ output_ext = None THEN "bulk_body" ELSE "bulk_check"
    /\ UNCHANGED <<inventory, import_queue, export_queue, unfinished, mode, file_info,
                   calls, log, input_ext, output_ext, resolved_at>>
    /\ UNCHANGED prompt_vars
    /\ UNCHANGED outside_scheduler

\* lines 152-169: import one file; a failure is logged and the file skipped,
\* a success is put on the export queue with the output extension of that moment.
BulkImportKeepsFailed ==
    /\ pc = "bulk_body"
    /\ \E ok \in BOOLEAN :
        LET got == QueueGet(import_queue)
            f == got.item
        IN  /\ import_queue' = got.rest
            /\ calls' = Append(calls, ImportCall(f, ok))
            /\ log' = IF ok
                      THEN Append(log, Info("Bulk importing", f))
                      ELSE log \o <<Info("Bulk importing", f), Error("Error importing", f)>>
            /\ export_queue' = QueuePut(export_queue,
                                  [file_info |-> f, output_extension |-> output_ext])
            /\ unfinished' = [imp |-> unfinished.imp - 1, exp |-> unfinished.exp + 1]
    /\ pc' = "bulk_test"
    /\ UNCHANGED <<inventory, mode, file_info, input_ext, output_ext, resolved_at>>
    /\ UNCHANGED prompt_vars
    /\ UNCHANGED outside_scheduler

BulkImport ==
    /\ pc = "bulk_body"
    /\ \E ok \in BOOLEAN :
        LET got == QueueGet(import_queue)
            f == got.item
        IN  /\ import_queue' = got.rest
            /\ calls' = Append(calls, ImportCall(f, ok))
            /\ IF ok
               THEN /\ log' = Append(log, Info("Bulk importing", f))
                    /\ export_queue' = QueuePut(export_queue,
                                          [file_info |-> f, output_extension |-> output_ext])
                    /\ unfinished' = [imp |-> unfinished.imp - 1, exp |-> unfinished.exp + 1]
               ELSE /\ log' = log \o <<Info("Bulk importing", f), Error("Error importing", f)>>
                    /\ export_queue' = export_queue
                    /\ unfinished' = [unfinished EXCEPT !.imp = @ - 1]
    /\ pc' = "bulk_test"
    /\ UNCHANGED <<inventory, mode, file_info, input_ext, output_ext, resolved_at>>
    /\ UNCHANGED prompt_vars
    /\ UNCHANGED outside_scheduler

\* lines 173-178: switch to draining once the output extension is set; with
\* it unset and nothing left to import, break out of the outer loop.
BulkCheck ==
    /\ pc = "bulk_check"
    /\ IF output_ext # None
       THEN mode' = "draining" /\ pc' = "loop"
       ELSE /\ mode' = mode
            /\ pc' = IF import_queue = <<>> THEN "done" ELSE "loop"
    /\ UNCHANGED <<inventory, import_queue, export_queue, unfinished, file_info,
                   calls, log, input_ext, output_ext, resolved_at>>
    /\ UNCHANGED prompt_vars
    /\ UNCHANGED outside_scheduler

\* lines 185-197: export the accumulated items oldest first; an export that
\* raises is logged; when the queue is empty switch to balanced.
DrainOneThenBalanced ==
    /\ pc = "drain"
    /\ IF export_queue # <<>>
       THEN \E ok \in BOOLEAN :
              LET got == QueueGet(export_queue)
              IN  /\ export_queue' = got.rest
                  /\ calls' = Append(calls, ExportCall(got.item, ok))
                  /\ log' = Append(log, IF ok THEN Info("Exported", got.item.file_info)
                                        ELSE Error("Error exporting", got.item.file_info))
                  /\ unfinished' = [unfinished EXCEPT !.exp = @ - 1]
       ELSE UNCHANGED <<export_queue, calls, log, unfinished>>
    /\ mode' = "balanced"
    /\ pc' = "loop"
    /\ UNCHANGED <<inventory, import_queue, file_info, input_ext, output_ext, resolved_at>>
    /\ UNCHANGED prompt_vars
    /\ UNCHANGED outside_scheduler

Drain ==
    /\ pc = "drain"
    /\ IF export_queue # <<>>
       THEN \E ok \in BOOLEAN :
              LET got == QueueGet(export_queue)
              IN  /\ export_queue' = got.rest
                  /\ calls' = Append(calls, ExportCall(got.item, ok))
                  /\ log' = Append(log, IF ok THEN Info("Exported", got.item.file_info)
                                        ELSE Error("Error exporting", got.item.file_info))
                  /\ unfinished' = [unfinished EXCEPT !.exp = @ - 1]
                  /\ UNCHANGED <<mode, pc>>
       ELSE /\ mode' = "balanced"
            /\ pc' = "loop"
            /\ UNCHANGED <<export_queue, calls, log, unfinished>>
    /\ UNCHANGED <<inventory, import_queue, file_info, input_ext, output_ext, resolved_at>>
    /\ UNCHANGED prompt_vars
    /\ UNCHANGED outside_scheduler

\* lines 201-209 and 225-227: in balanced mode import the next file (a failure
\* is logged and the loop continues), or break when nothing is left to import.
BalancedImport ==
    /\ pc = "balanced"
    /\ IF import_queue # <<>>
       THEN \E ok \in BOOLEAN :
              LET got == QueueGet(import_queue)
                  f == got.item
              IN  /\ import_queue' = got.rest
                  /\ calls' = Append(calls, ImportCall(f, ok))
                  /\ IF ok
                     THEN /\ log' = Append(log, Info("Balanced import of", f))
                          /\ file_info' = f
                          /\ pc' = "balanced_export"
                          /\ unfinished' = unfinished
                     ELSE /\ log' = log \o <<Info("Balanced import of", f),
                                             Error("Error importing", f)>>
                          /\ file_info' = 0
                          /\ pc' = "loop"
                          /\ unfinished' = [unfinished EXCEPT !.imp = @ - 1]
       ELSE /\ pc' = "done"
            /\ UNCHANGED <<import_queue, calls, log, file_info, unfinished>>
    /\ UNCHANGED <<inventory, export_queue, mode, input_ext, output_ext, resolved_at>>
    /\ UNCHANGED prompt_vars
    /\ UNCHANGED outside_scheduler

\* lines 211-224: export the file just imported; an export that raises is logged.
BalancedExport ==
    /\ pc = "balanced_export"
    /\ \E ok \in BOOLEAN :
        /\ calls' = Append(calls, ExportCall([file_info |-> file_info,
                                              output_extension |-> output_ext], ok))
        /\ log' = Append(log, IF ok THEN Info("Balanced export of", file_info)
                              ELSE Error("Error exporting (balanced)", file_info))
    /\ unfinished' = [unfinished EXCEPT !.imp = @ - 1]
    /\ file_info' = 0
    /\ pc' = "loop"
    /\ UNCHANGED <<inventory, import_queue, export_queue, mode, input_ext, output_ext,
                   resolved_at>>
    /\ UNCHANGED prompt_vars
    /\ UNCHANGED outside_scheduler

\* ------------------------------------------ resolution of the output format
\* BaseConversionManager._determine_output_extension: prompt only when the
\* output extension is not set; the prompt reads the manager's input_ext once.
DetermineOutputExtension ==
    /\ prompt_pc = "idle"
    /\ IF output_ext = None
       THEN prompt_pc' = "asking" /\ prompt_input_ext' = input_ext
       ELSE prompt_pc' = "returned" /\ prompt_input_ext' = prompt_input_ext
    /\ UNCHANGED <<input_ext, output_ext, prompt_flags, resolved_at>>
    /\ UNCHANGED sched_vars
    /\ UNCHANGED outside_scheduler

\* Settings._prompt_for_input_format: ask until the answer is a supported
\* format; the extension it maps to becomes the manager's input_ext.
PromptForInputFormat(input_format) == ALIAS_TO_EXTENSION_MAP[input_format]

\* Settings.prompt_for_output_format: one pass of its while loop, for the
\* answers output_format, input_answer (y/n) and input_format.
PromptForOutputFormat ==
    /\ prompt_pc = "asking"
    /\ \E output_format \in Answers, input_answer \in {"y", "n"},
          input_format \in Answers \ {"bogus"} :
        IF output_format \in Aliases /\ ALIAS_TO_EXTENSION_MAP[output_format] # prompt_input_ext
        THEN /\ output_ext' = ALIAS_TO_EXTENSION_MAP[output_format]
             /\ prompt_flags' = [prompt_flags EXCEPT !.output = 1]
             /\ prompt_pc' = "returned"
             /\ input_ext' = input_ext
             /\ resolved_at' = pc
        ELSE IF output_format \in Aliases /\ input_answer = "y"
        THEN /\ input_ext' = PromptForInputFormat(input_format)
             /\ prompt_flags' = [prompt_flags EXCEPT !.input = 1]
             /\ UNCHANGED <<output_ext, prompt_pc, resolved_at>>
        ELSE UNCHANGED <<input_ext, output_ext, prompt_flags, prompt_pc, resolved_at>>
    /\ UNCHANGED prompt_input_ext
    /\ UNCHANGED sched_vars
    /\ UNCHANGED outside_scheduler


\* ======================================================================
\* Settings (Make_It_Parquet/user_interface/settings.py) and the prompt for
\* the output extension (Make_It_Parquet/user_interface/prompts.py)
\* ======================================================================

\* extension_mapping.ALLOWED_FILE_EXTENSIONS.
ALLOWED_FILE_EXTENSIONS == {".csv", "tsv", "txt", ".json", ".parquet", ".xlsx"}

\* extension_mapping.ALIAS_TO_EXTENSION_MAP.
ExtensionMapping ==
    [a \in {"csv", "txt", "tsv", "json", "js", "parquet", "pq", "excel", "ex", "xlsx"} |->
        CASE a = "csv" -> ".csv"
          [] a = "txt" -> ".txt"
          [] a = "tsv" -> ".tsv"
          [] a \in {"json", "js"} -> ".json"
          [] a \in {"parquet", "pq"} -> ".parquet"
          [] a \in {"excel", "ex", "xlsx"} -> ".xlsx"]

\* Formats given on the command line that the model draws from (None: the
\* option is absent).
CliFormats == {None, "csv", "js", "tsv", "bogus"}

\* Extensions handed to Settings.set_input_ext / set_output_ext by a caller.
CallerExtensions == {".csv", ".json", ".tsv", "tsv", ".doc"}

\* cli_parser._validate_format.
ValidateFormat(format) ==
    IF format = None THEN None
    ELSE IF format \notin DOMAIN ExtensionMapping THEN None
    ELSE ExtensionMapping[format]

InputOutputExtensionsNeverSame(in_ext, out_ext) == FALSE

\* cli_parser._input_output_extensions_same.
InputOutputExtensionsSame(in_ext, out_ext) ==
    in_ext # None /\ out_ext # None /\ in_ext = out_ext

\* cli_parser.get_input_output_extensions: the pair <<input_ext, output_ext>>.
GetInputOutputExtensions(input_format, output_format) ==
    LET in_ext == ValidateFormat(input_format)
        out_ext == ValidateFormat(output_format)
    IN  IF InputOutputExtensionsSame(in_ext, out_ext)
        THEN <<None, None>>
        ELSE <<in_ext, out_ext>>

\* Settings.__init__: the extensions supplied on the command line.
InitSettings ==
    /\ \E input_format \in CliFormats, output_format \in CliFormats :
        /\ supplied_input_ext = GetInputOutputExtensions(input_format, output_format)[1]
        /\ supplied_output_ext = GetInputOutputExtensions(input_format, output_format)[2]
    /\ detected_input_ext = None
    /\ ext_prompt_pc = "idle"
    /\ ext_prompt_input_ext = None

IdleSettings ==
    /\ supplied_input_ext = None
    /\ supplied_output_ext = None
    /\ detected_input_ext = None
    /\ ext_prompt_pc = "idle"
    /\ ext_prompt_input_ext = None

\* Settings.master_input_ext ("exit": the property calls exit_program).
MasterInputExt ==
    IF supplied_input_ext # None /\ detected_input_ext = None THEN supplied_input_ext
    ELSE IF detected_input_ext # None /\ supplied_input_ext = None THEN detected_input_ext
    ELSE IF supplied_input_ext = None /\ detected_input_ext = None THEN None
    ELSE IF supplied_input_ext = detected_input_ext THEN supplied_input_ext
    ELSE "exit"

\* Settings.set_input_ext(input_ext, method).
SetInputExt ==
    /\ \E e \in CallerExtensions, method \in {"detected", "supplied", "other"} :
        IF e \in ALLOWED_FILE_EXTENSIONS /\ method = "detected"
        THEN detected_input_ext' = e /\ supplied_input_ext' = None
        ELSE IF e \in ALLOWED_FILE_EXTENSIONS /\ method = "supplied"
        THEN supplied_input_ext' = e /\ detected_input_ext' = None
        ELSE UNCHANGED <<supplied_input_ext, detected_input_ext>>
    /\ UNCHANGED <<supplied_output_ext, ext_prompt_pc, ext_prompt_input_ext>>
    /\ UNCHANGED outside_settings

\* Settings.set_output_ext(output_ext): stores an allowed extension.
StoredOutputExt(e) ==
    IF e \in ALLOWED_FILE_EXTENSIONS THEN e ELSE supplied_output_ext

SetOutputExt ==
    /\ \E e \in CallerExtensions : supplied_output_ext' = StoredOutputExt(e)
    /\ UNCHANGED <<supplied_input_ext, detected_input_ext, ext_prompt_pc,
                   ext_prompt_input_ext>>
    /\ UNCHANGED outside_settings

\* A call of prompt_for_output_extension(input_ext, settings) with the input
\* extension in force.
CallPromptForOutputExtension ==
    /\ ext_prompt_pc \in {"idle", "returned"}
    /\ MasterInputExt \notin {None, "exit"}
    /\ ext_prompt_pc' = "asking"
    /\ ext_prompt_input_ext' = MasterInputExt
    /\ UNCHANGED <<supplied_input_ext, supplied_output_ext, detected_input_ext>>
    /\ UNCHANGED outside_settings

\* prompt_for_output_extension: one pass of its loop.  _get_extension asks
\* until the answer is a supported format; an extension equal to input_ext
\* goes to _offer_chance_to_change_input_ext, which does nothing for a
\* detected input extension and otherwise asks y/n; on "y"
\* prompt_for_input_extension calls settings.update_input_ext, a method
\* Settings does not have, and the AttributeError ends the prompt.
PromptForOutputExtension ==
    /\ ext_prompt_pc = "asking"
    /\ \E output_format \in Answers \ {"bogus"}, answer \in {"y", "n"} :
        LET e == ExtensionMapping[output_format]
        IN  IF e # ext_prompt_input_ext
            THEN supplied_output_ext' = e /\ ext_prompt_pc' = "returned"
            ELSE IF detected_input_ext # None /\ supplied_input_ext = None
            THEN UNCHANGED <<supplied_output_ext, ext_prompt_pc>>
            ELSE IF answer = "y"
            THEN supplied_output_ext' = supplied_output_ext /\ ext_prompt_pc' = "raised"
            ELSE UNCHANGED <<supplied_output_ext, ext_prompt_pc>>
    /\ UNCHANGED <<supplied_input_ext, detected_input_ext, ext_prompt_input_ext>>
    /\ UNCHANGED outside_settings

NextSettings ==
    \/ SetInputExt
    \/ SetOutputExt
    \/ CallPromptForOutputExtension
    \/ PromptForOutputExtension


\* ======================================================================
\* FileConversionManager (Make_It_Parquet/conversion_manager.py) with the
\* Settings of user_interface/settings.py and the prompt of
\* user_interface/interactive.py
\* ======================================================================

\* Suffixes of the input file that the model draws from.
FileExtensions == {".csv", ".json", ".tsv", ".doc"}

\* InputOutputFlags.__init__ followed by set_flags("cli", input_ext, output_ext).
CliFlags(in_ext, out_ext) ==
    [input_ext_supplied_from_cli |-> in_ext # None,
     output_ext_supplied_from_cli |-> out_ext # None,
     input_ext_auto_detected |-> FALSE,
     output_ext_supplied_from_prompt |-> FALSE,
     input_ext_supplied_from_prompt |-> FALSE]

\* Settings.__init__ (user_interface/settings.py): the extensions of the
\* command line; the manager is not constructed yet.
InitManager ==
    /\ \E input_format \in CliFormats, output_format \in CliFormats :
        LET exts == GetInputOutputExtensions(input_format, output_format)
        IN  /\ settings_input_ext = exts[1]
            /\ settings_output_ext = exts[2]
            /\ input_output_flags = CliFlags(exts[1], exts[2])
    /\ file_extension \in FileExtensions
    /\ manager_pc = "new"
    /\ manager_input_ext = None
    /\ manager_output_ext = None
    /\ interactive_input_ext = None
    /\ interactive_output_ext = None

IdleManager ==
    /\ settings_input_ext = None
    /\ settings_output_ext = None
    /\ input_output_flags = CliFlags(None, None)
    /\ file_extension = ".csv"
    /\ manager_pc = "new"
    /\ manager_input_ext = None
    /\ manager_output_ext = None
    /\ interactive_input_ext = None
    /\ interactive_output_ext = None

\* BaseConversionManager.__init__: input_ext and output_ext are copied from
\* the settings (file_info_dict, which this Settings class does not define, is
\* taken as given: file_extension).
BaseConversionManagerInit ==
    /\ manager_pc = "new"
    /\ manager_input_ext' = settings_input_ext
    /\ manager_output_ext' = settings_output_ext
    /\ manager_pc' = "check_input"
    /\ UNCHANGED <<settings_input_ext, settings_output_ext, input_output_flags,
                   file_extension, interactive_input_ext, interactive_output_ext>>
    /\ UNCHANGED outside_manager

\* FileConversionManager._check_input_extension: an unset input extension is
\* taken from the file; one that is not allowed ends the program (exit(1)).
CheckInputExtension ==
    /\ manager_pc = "check_input"
    /\ LET e == IF manager_input_ext = None THEN file_extension ELSE manager_input_ext
       IN  /\ manager_input_ext' = e
           /\ manager_pc' = IF e \in ALLOWED_FILE_EXTENSIONS THEN "determine" ELSE "exited"
    /\ UNCHANGED <<settings_input_ext, settings_output_ext, input_output_flags,
                   file_extension, manager_output_ext, interactive_input_ext,
                   interactive_output_ext>>
    /\ UNCHANGED outside_manager

\* BaseConversionManager._determine_output_extension: prompt when the
\* manager's output extension is not set; the prompt reads settings.input_ext.
ManagerDetermineOutputExtension ==
    /\ manager_pc = "determine"
    /\ IF manager_output_ext = None
       THEN manager_pc' = "prompting" /\ interactive_input_ext' = settings_input_ext
       ELSE manager_pc' = "export_class" /\ interactive_input_ext' = interactive_input_ext
    /\ UNCHANGED <<settings_input_ext, settings_output_ext, input_output_flags,
                   file_extension, manager_input_ext, manager_output_ext,
                   interactive_output_ext>>
    /\ UNCHANGED outside_manager

\* interactive.prompt_for_output_format: one pass of its loop.  A supported
\* format other than the input's is kept in the local output_ext and the
\* function returns; for one equal to the input's the function reads
\* settings.input_output_flags.input_ext_cli_flag, which InputOutputFlags does
\* not have, and the AttributeError ends the prompt; anything else asks again.
InteractivePromptForOutputFormat ==
    /\ manager_pc = "prompting"
    /\ \E output_format \in Answers :
        IF output_format \in DOMAIN ExtensionMapping
           /\ ExtensionMapping[output_format] # interactive_input_ext
        THEN /\ interactive_output_ext' = ExtensionMapping[output_format]
             /\ manager_pc' = "export_class"
        ELSE IF output_format \in DOMAIN ExtensionMapping
        THEN /\ interactive_output_ext' = ExtensionMapping[output_format]
             /\ manager_pc' = "prompt_raised"
        ELSE UNCHANGED <<interactive_output_ext, manager_pc>>
    /\ UNCHANGED <<settings_input_ext, settings_output_ext, input_output_flags,
                   file_extension, manager_input_ext, manager_output_ext,
                   interactive_input_ext>>
    /\ UNCHANGED outside_manager

\* BaseConversionManager._generate_export_class: an exporter for the keys of
\* export_class_map, ValueError for anything else.
ExportClassKeys == {"csv", "tsv", "txt", "json", "parquet", "excel"}

GenerateExportClass ==
    /\ manager_pc = "export_class"
    /\ manager_pc' = IF manager_output_ext \in ExportClassKeys
                     THEN "constructed" ELSE "export_class_raised"
    /\ UNCHANGED <<settings_input_ext, settings_output_ext, input_output_flags,
                   file_extension, manager_input_ext, manager_output_ext,
                   interactive_input_ext, interactive_output_ext>>
    /\ UNCHANGED outside_manager

NextManager ==
    \/ BaseConversionManagerInit
    \/ CheckInputExtension
    \/ ManagerDetermineOutputExtension
    \/ InteractivePromptForOutputFormat
    \/ GenerateExportClass


\* ======================================================================
\* The directory managers
\* ======================================================================
DirectoryClasses == {"DirectoryManager", "DirectoryConversionManager", "root"}

\* Suffixes of the files of a directory that the model draws from (".tsv" is
\* not in ALLOWED_FILE_EXTENSIONS, which spells it "tsv").
DirExtensions == {".csv", ".json", ".parquet", ".tsv"}

\* create_file_info: the fields of a file the managers read.
FileInfo(name, ext, size) ==
    [file_name |-> name, file_extension |-> ext, file_size |-> size]

\* The directories of n files.
Directories(n) ==
    {[i \in 1..n |-> FileInfo(i, e[i], z[i])] :
        e \in [1..n -> DirExtensions], z \in [1..n -> 1..MaxFileSize]}

\* extension_counts[ext] += 1 on a defaultdict(int): a new key joins at the
\* end of the dict.
Tally(counts, ext) ==
    IF \E i \in DOMAIN counts : counts[i][1] = ext
    THEN [i \in DOMAIN counts |->
            IF counts[i][1] = ext THEN <<ext, counts[i][2] + 1>> ELSE counts[i]]
    ELSE Append(counts, <<ext, 1>>)

\* _group_files_by_extension: the counts of the allowed extensions.
RECURSIVE GroupFilesByExtension(_)
GroupFilesByExtension(files) ==
    IF files = <<>> THEN <<>>
    ELSE LET earlier == GroupFilesByExtension(SubSeq(files, 1, Len(files) - 1))
             ext == files[Len(files)].file_extension
         IN  IF ext \in ALLOWED_FILE_EXTENSIONS THEN Tally(earlier, ext) ELSE earlier

\* _group_files_by_extension: the files of each counted extension, in scan order.
FileGroups(files) ==
    [ext \in {f.file_extension : f \in {files[i] : i \in DOMAIN files}}
             \cap ALLOWED_FILE_EXTENSIONS |->
        SelectSeq(files, LAMBDA f : f.file_extension = ext)]

\* A defaultdict(list) read at a key.
GroupOf(groups, ext) == IF ext \in DOMAIN groups THEN groups[ext] ELSE <<>>

\* sorted(..., reverse=True) / list.sort(reverse=True) on <<key, item>> pairs:
\* stable, largest key first.
RECURSIVE SortedReverse(_)
SortedReverse(pairs) ==
    IF pairs = <<>> THEN <<>>
    ELSE LET earlier == SortedReverse(SubSeq(pairs, 1, Len(pairs) - 1))
             x == pairs[Len(pairs)]
             ahead == Cardinality({i \in DOMAIN earlier : earlier[i][1] >= x[1]})
         IN  SubSeq(earlier, 1, ahead) \o <<x>> \o SubSeq(earlier, ahead + 1, Len(earlier))

\* _sort_extensions_by_count.
SortExtensionsByCount(counts) ==
    LET sorted == SortedReverse([i \in DOMAIN counts |-> <<counts[i][2], counts[i]>>])
    IN  [i \in DOMAIN sorted |-> sorted[i][2]]

\* _check_for_ambiguous_file_types: the first two keys of the dict hold the
\* same count.
CheckForAmbiguousFileTypes(counts) ==
    Len(counts) > 1 /\ counts[1][2] = counts[2][2]

\* _order_files_by_size with reverse=True: stable, largest file first.
OrderFilesBySize(files) ==
    LET sorted == SortedReverse([i \in DOMAIN files |-> <<files[i].file_size, files[i]>>])
    IN  [i \in DOMAIN sorted |-> sorted[i][2]]

\* The manager before its constructor has scanned the directory; input_ext
\* and output_ext are the copies taken from the settings.
InitDirectory ==
    /\ dm_class \in DirectoryClasses
    /\ \E n \in 0..MaxDirFiles : directory \in Directories(n)
    /\ extension_counts = <<>>
    /\ extension_file_groups = <<>>
    /\ dm_settings_input_ext \in {None, ".json"}
    /\ dm_input_ext = dm_settings_input_ext
    /\ dm_output_ext \in {None, ".parquet"}
    /\ conversion_file_list = <<>>
    /\ dm_prompted = None
    /\ dm_auto_flag = FALSE
    /\ dm_import_queue = <<>>
    /\ dm_pc = "new"

IdleDirectory ==
    /\ dm_class = "DirectoryManager"
    /\ dm_settings_input_ext = None
    /\ directory = <<>>
    /\ extension_counts = <<>>
    /\ extension_file_groups = <<>>
    /\ dm_input_ext = None
    /\ dm_output_ext = None
    /\ conversion_file_list = <<>>
    /\ dm_prompted = None
    /\ dm_auto_flag = FALSE
    /\ dm_import_queue = <<>>
    /\ dm_pc = "new"

\* _generate_extension_file_groups: scan, group, exit when nothing was counted.
GenerateExtensionFileGroups ==
    /\ dm_class \in {"DirectoryManager", "DirectoryConversionManager"}
    /\ dm_pc = "new"
    /\ extension_counts' = GroupFilesByExtension(directory)
    /\ extension_file_groups' = FileGroups(directory)
    /\ dm_pc' = IF extension_counts' = <<>> THEN "exited" ELSE "detect"
    /\ UNCHANGED <<dm_class, dm_settings_input_ext, directory, dm_input_ext, dm_output_ext,
                   conversion_file_list, dm_prompted, dm_auto_flag, dm_import_queue>>
    /\ UNCHANGED outside_directory

\* _detect_majority_extension.  DirectoryConversionManager sorts the counts
\* first; in DirectoryManager the call of _sort_extensions_by_count is part of
\* the comment on line 168 and the counts stay in scan order.  On ambiguity
\* the user is asked for an input format (the prompt asks until the answer is
\* an alias and keeps it in a local).  Otherwise the first key becomes the
\* input extension, the settings' flags are told "auto", and its group becomes
\* the conversion file list.
DetectMajorityExtension ==
    /\ dm_class \in {"DirectoryManager", "DirectoryConversionManager"}
    /\ dm_pc = "detect"
    /\ extension_counts' = IF dm_class = "DirectoryConversionManager"
                           THEN SortExtensionsByCount(extension_counts)
                           ELSE extension_counts
    /\ IF CheckForAmbiguousFileTypes(extension_counts')
       THEN /\ \E input_format \in Answers \ {"bogus"} :
                dm_prompted' = ExtensionMapping[input_format]
            /\ UNCHANGED <<dm_input_ext, dm_auto_flag, conversion_file_list>>
       ELSE /\ dm_input_ext' = extension_counts'[1][1]
            /\ dm_auto_flag' = TRUE
            /\ conversion_file_list' = GroupOf(extension_file_groups, dm_input_ext')
            /\ UNCHANGED dm_prompted
    /\ dm_pc' = "order"
    /\ UNCHANGED <<dm_class, dm_settings_input_ext, directory, extension_file_groups, dm_output_ext,
                   dm_import_queue>>
    /\ UNCHANGED outside_directory

\* _order_files_by_size of DirectoryManager and of the
\* DirectoryConversionManager of Make_It_Parquet.
OrderFiles ==
    /\ dm_class \in {"DirectoryManager", "DirectoryConversionManager"}
    /\ dm_pc = "order"
    /\ conversion_file_list' = OrderFilesBySize(conversion_file_list)
    /\ dm_pc' = "built"
    /\ UNCHANGED <<dm_class, dm_settings_input_ext, directory, extension_counts, extension_file_groups,
                   dm_input_ext, dm_output_ext, dm_prompted, dm_auto_flag,
                   dm_import_queue>>
    /\ UNCHANGED outside_directory

\* DirectoryConversionManager._start_conversion_process of Make_It_Parquet:
\* with both queue flags 0 (nothing ever sets them) and no output extension,
\* _place_file_paths_in_queue puts the files on the import queue in list order.
PlaceFilePathsInQueue ==
    /\ dm_class = "DirectoryConversionManager"
    /\ dm_pc = "built"
    /\ dm_import_queue' = IF dm_output_ext = None
                          THEN dm_import_queue \o conversion_file_list
                          ELSE dm_import_queue
    /\ dm_pc' = "started"
    /\ UNCHANGED <<dm_class, dm_settings_input_ext, directory, extension_counts, extension_file_groups,
                   dm_input_ext, dm_output_ext, conversion_file_list, dm_prompted,
                   dm_auto_flag>>
    /\ UNCHANGED outside_directory

\* DirectoryConversionManager._generate_file_dictionary of conversion_manager.py:
\* scan and group; exit when nothing was counted; with more than one extension
\* either ask the user (tie of the two largest counts; the prompt stores the
\* answer in the manager's input_ext) or take the extension with the largest
\* count; the file dictionary is the group of input_ext.
GenerateFileDictionary ==
    /\ dm_class = "root"
    /\ dm_pc = "new"
    /\ extension_counts' = SortExtensionsByCount(GroupFilesByExtension(directory))
    /\ extension_file_groups' = FileGroups(directory)
    /\ IF extension_counts' = <<>>
       THEN /\ dm_pc' = "exited"
            /\ UNCHANGED <<dm_input_ext, dm_prompted, dm_auto_flag, conversion_file_list>>
       ELSE /\ dm_pc' = "order"
            /\ IF Len(extension_counts') > 1
               THEN IF extension_counts'[1][2] = extension_counts'[2][2]
                    THEN /\ \E input_format \in Answers \ {"bogus"} :
                             /\ dm_prompted' = PromptForInputFormat(input_format)
                             /\ dm_input_ext' = PromptForInputFormat(input_format)
                         /\ UNCHANGED dm_auto_flag
                    ELSE /\ dm_input_ext' = extension_counts'[1][1]
                         /\ dm_auto_flag' = TRUE
                         /\ UNCHANGED dm_prompted
               ELSE UNCHANGED <<dm_input_ext, dm_prompted, dm_auto_flag>>
            /\ conversion_file_list' = GroupOf(extension_file_groups', dm_input_ext')
    /\ UNCHANGED <<dm_class, dm_settings_input_ext, directory, dm_output_ext, dm_import_queue>>
    /\ UNCHANGED outside_directory

\* DirectoryConversionManager._order_files_by_size of conversion_manager.py:
\* sort(key=lambda x: x[2]) on a list of dicts with the keys path, name, size
\* and ext: the key function raises KeyError for the first file, the list
\* keeps its order.
RootOrderFilesBySize ==
    /\ dm_class = "root"
    /\ dm_pc = "order"
    /\ dm_pc' = IF conversion_file_list = <<>> THEN "convert" ELSE "order_raised"
    /\ UNCHANGED <<dm_class, dm_settings_input_ext, directory, extension_counts, extension_file_groups,
                   dm_input_ext, dm_output_ext, conversion_file_list, dm_prompted,
                   dm_auto_flag, dm_import_queue>>
    /\ UNCHANGED outside_directory

\* DirectoryConversionManager._convert_directory of conversion_manager.py calls
\* _generate_directory_info, which the class does not define: AttributeError.
ConvertDirectory ==
    /\ dm_class = "root"
    /\ dm_pc = "convert"
    /\ dm_pc' = "convert_raised"
    /\ UNCHANGED <<dm_class, dm_settings_input_ext, directory, extension_counts, extension_file_groups,
                   dm_input_ext, dm_output_ext, conversion_file_list, dm_prompted,
                   dm_auto_flag, dm_import_queue>>
    /\ UNCHANGED outside_directory

\* The majority detector with early exit (its algorithm is given in the
\* specification only; no manager implements it): tally the files one by one;
\* after each file, with the leading format's count above the second-highest
\* count plus the number of files not scanned yet, return the leader at once;
\* after the last file return the only format of maximum count, or
\* "ambiguous" when several share it; "fatal" when no file was counted.
RECURSIVE EarlyExitScan(_, _)
EarlyExitScan(files, scanned) ==
    LET counts == GroupFilesByExtension(SubSeq(files, 1, scanned))
        top == {i \in DOMAIN counts : \A j \in DOMAIN counts : counts[j][2] <= counts[i][2]}
        leader == CHOOSE i \in top : TRUE
        others == {counts[j][2] : j \in DOMAIN counts \ {leader}}
        second_highest == IF others = {} THEN 0
                          ELSE CHOOSE n \in others : \A o \in others : o <= n
        remaining == Len(files) - scanned
    IN  IF counts # <<>> /\ counts[leader][2] > second_highest + remaining
        THEN counts[leader][1]
        ELSE IF scanned < Len(files) THEN EarlyExitScan(files, scanned + 1)
        ELSE IF counts = <<>> THEN "fatal"
        ELSE IF Cardinality(top) > 1 THEN "ambiguous"
        ELSE counts[leader][1]

EarlyExitDetector(files) == EarlyExitScan(files, 0)

NextDirectory ==
    \/ GenerateExtensionFileGroups
    \/ DetectMajorityExtension
    \/ OrderFiles
    \/ PlaceFilePathsInQueue
    \/ GenerateFileDictionary
    \/ RootOrderFilesBySize
    \/ ConvertDirectory


\* ======================================================================
\* path_manager.py: strings, the alias renamer, DirectoryPathManager
\* ======================================================================
\* A string is the sequence of its characters.
LowerLetters == <<"a", "b", "c", "d", "e", "f", "g", "h", "i", "j", "k", "l", "m",
                  "n", "o", "p", "q", "r", "s", "t", "u", "v", "w", "x", "y", "z">>
UpperLetters == <<"A", "B", "C", "D", "E", "F", "G", "H", "I", "J", "K", "L", "M",
                  "N", "O", "P", "Q", "R", "S", "T", "U", "V", "W", "X", "Y", "Z">>

IsLowerChar(c) == \E i \in DOMAIN LowerLetters : LowerLetters[i] = c
IsUpperChar(c) == \E i \in DOMAIN UpperLetters : UpperLetters[i] = c

CharLower(c) ==
    IF IsUpperChar(c)
    THEN LowerLetters[CHOOSE i \in DOMAIN UpperLetters : UpperLetters[i] = c] ELSE c
CharUpper(c) ==
    IF IsLowerChar(c)
    THEN UpperLetters[CHOOSE i \in DOMAIN LowerLetters : LowerLetters[i] = c] ELSE c

\* str.lower, str.upper, str.capitalize.
StrLower(str) == [i \in DOMAIN str |-> CharLower(str[i])]
StrUpper(str) == [i \in DOMAIN str |-> CharUpper(str[i])]
StrCapitalize(str) ==
    [i \in DOMAIN str |-> IF i = 1 THEN CharUpper(str[i]) ELSE CharLower(str[i])]

\* str.isupper, str.islower: at least one cased character and no cased
\* character of the other case.
StrIsUpper(str) ==
    /\ \E i \in DOMAIN str : IsUpperChar(str[i])
    /\ \A i \in DOMAIN str : ~IsLowerChar(str[i])
StrIsLower(str) ==
    /\ \E i \in DOMAIN str : IsLowerChar(str[i])
    /\ \A i \in DOMAIN str : ~IsUpperChar(str[i])

\* The pattern re.compile(re.escape(old_alias), re.IGNORECASE) matches text at
\* position p.
MatchesAt(text, old_alias, p) ==
    /\ p >= 1
    /\ p + Len(old_alias) - 1 <= Len(text)
    /\ StrLower(SubSeq(text, p, p + Len(old_alias) - 1)) = StrLower(old_alias)

\* `x in text` for strings, after lowering both.
OccursIn(alias, text) == \E p \in 1..Len(text) : MatchesAt(text, alias, p)

\* replacer(match) of _replace_alias_in_string.
ReplacerVerbatim(orig, new_alias) == new_alias
Replacer(orig, new_alias) ==
    IF StrIsUpper(orig) THEN StrUpper(new_alias)
    ELSE IF StrIsLower(orig) THEN StrLower(new_alias)
    ELSE IF StrIsUpper(<<orig[1]>>) /\ StrIsLower(Tail(orig)) THEN StrCapitalize(new_alias)
    ELSE new_alias

\* pattern.subn(replacer, text): the matches are taken from left to right and
\* do not overlap.
RECURSIVE Subn(_, _, _)
Subn(text, old_alias, new_alias) ==
    IF Len(text) < Len(old_alias) THEN [result |-> text, count |-> 0]
    ELSE IF MatchesAt(text, old_alias, 1)
    THEN LET rest == Subn(SubSeq(text, Len(old_alias) + 1, Len(text)), old_alias, new_alias)
         IN  [result |-> Replacer(SubSeq(text, 1, Len(old_alias)), new_alias) \o rest.result,
              count |-> rest.count + 1]
    ELSE LET rest == Subn(Tail(text), old_alias, new_alias)
         IN  [result |-> <<Head(text)>> \o rest.result, count |-> rest.count]

\* BasePathManager._replace_alias_in_string.
ReplaceAliasInString(text, old_alias, new_alias) ==
    LET subn == Subn(text, old_alias, new_alias)
    IN  IF subn.count = 0 THEN text \o <<" ">> \o new_alias ELSE subn.result

\* BasePathManager.NAMING_EXT_MAP.
NAMING_EXT_MAP ==
    [ext \in {".csv", ".txt", ".tsv", ".json", ".parquet", ".parq", ".pq", ".xlsx"} |->
        CASE ext = ".csv" -> <<"c", "s", "v">>
          [] ext = ".txt" -> <<"t", "x", "t">>
          [] ext = ".tsv" -> <<"t", "s", "v">>
          [] ext = ".json" -> <<"j", "s", "o", "n">>
          [] ext \in {".parquet", ".parq", ".pq"} ->
                <<"p", "a", "r", "q", "u", "e", "t">>
          [] ext = ".xlsx" -> <<"e", "x", "c", "e", "l">>]

\* Suffixes of the files of a directory that the model draws from, and
\* file.suffix.lower() on them.
PathSuffixes == {".csv", ".CSV", ".json", ".pq", ".doc"}
SuffixLower(suffix) == IF suffix = ".CSV" THEN ".csv" ELSE suffix

ElementsOfSeq(seq) == {seq[i] : i \in DOMAIN seq}

\* The aliases of the recognised files, in directory order.
AliasesOf(suffixes) ==
    LET known == SelectSeq(suffixes, LAMBDA x : SuffixLower(x) \in DOMAIN NAMING_EXT_MAP)
    IN  [i \in DOMAIN known |-> NAMING_EXT_MAP[SuffixLower(known[i])]]

\* Counter(aliases).most_common(1)[0][0]: the largest count; of equal counts
\* the alias met first.
MostCommon(aliases) ==
    LET count(a) == Cardinality({i \in DOMAIN aliases : aliases[i] = a})
        first(a) == CHOOSE i \in DOMAIN aliases :
                        aliases[i] = a /\ \A j \in 1..(i - 1) : aliases[j] # a
        top == {a \in ElementsOfSeq(aliases) :
                    \A b \in ElementsOfSeq(aliases) : count(b) <= count(a)}
    IN  CHOOSE a \in top : \A b \in top : first(a) <= first(b)

\* infer_majority_alias_in_directory.
InferMajorityAliasInDirectory(suffixes) ==
    IF AliasesOf(suffixes) = <<>> THEN None ELSE MostCommon(AliasesOf(suffixes))

\* Directory names and output extensions that the model draws from.
InputNames ==
    {<<"d", "a", "t", "a", "_", "c", "s", "v">>,
     <<"D", "a", "t", "a", "_", "C", "s", "v">>,
     <<"D", "A", "T", "A", "_", "C", "S", "V", "_", "E", "X", "P", "O", "R", "T">>,
     <<"j", "s", "o", "n", "_", "c", "S", "v">>,
     <<"r", "e", "p", "o", "r", "t">>}
OutputExts == {<<"j", "s", "o", "n">>, <<"p", "a", "r", "q", "u", "e", "t">>,
               <<"c", "s", "v">>}

\* DirectoryPathManager before its constructor has looked at the directory.
InitPath ==
    /\ pm_suffixes \in UNION {[1..n -> PathSuffixes] : n \in 0..MaxDirFiles}
    /\ pm_input_name \in InputNames
    /\ pm_output_ext \in OutputExts
    /\ pm_input_alias = None
    /\ pm_output_name = None
    /\ pm_pc = "new"

IdlePath ==
    /\ pm_suffixes = <<>>
    /\ pm_input_name = <<>>
    /\ pm_output_ext = <<>>
    /\ pm_input_alias = None
    /\ pm_output_name = None
    /\ pm_pc = "new"

\* DirectoryPathManager.__init__, lines 136-138.
InferInputAlias ==
    /\ pm_pc = "new"
    /\ pm_input_alias' = InferMajorityAliasInDirectory(pm_suffixes)
    /\ pm_pc' = "name"
    /\ UNCHANGED <<pm_suffixes, pm_input_name, pm_output_ext, pm_output_name>>
    /\ UNCHANGED outside_path

\* DirectoryPathManager._generate_output_name.
GenerateOutputName ==
    /\ pm_pc = "name"
    /\ pm_output_name' =
          IF pm_input_alias # None /\ OccursIn(pm_input_alias, pm_input_name)
          THEN ReplaceAliasInString(pm_input_name, pm_input_alias, pm_output_ext)
          ELSE pm_input_name \o <<"_">> \o pm_output_ext
    /\ pm_pc' = "constructed"
    /\ UNCHANGED <<pm_suffixes, pm_input_name, pm_output_ext, pm_input_alias>>
    /\ UNCHANGED outside_path

NextPath ==
    \/ InferInputAlias
    \/ GenerateOutputName

\* ---------------------------------------- calls of _replace_alias_in_string
\* Characters of the texts, old aliases and new aliases that the model draws
\* from, and the examples of the documentation.
RenameChars == {"p", "q", "j", "P", "Q", "J", "_"}
OldAliases == {<<"p", "q">>, <<"j", "p">>, <<"j">>}
NewAliases == OldAliases \cup {<<"j", "P">>}

Csv == <<"c", "s", "v">>
Json == <<"j", "s", "o", "n">>
ExampleTexts ==
    {<<"D", "A", "T", "A", "_", "C", "S", "V", "_", "E", "X", "P", "O", "R", "T">>,
     <<"d", "a", "t", "a", "_", "c", "s", "v">>,
     <<"D", "a", "t", "a", "_", "C", "s", "v">>,
     <<"r", "e", "p", "o", "r", "t">>}

BoundedTexts == UNION {[1..n -> RenameChars] : n \in 0..MaxTextLen}

RenameInputs ==
    (BoundedTexts \X OldAliases \X NewAliases) \cup (ExampleTexts \X {Csv} \X {Json})

InitRename ==
    /\ \E input \in RenameInputs :
          /\ rn_text = input[1]
          /\ rn_old_alias = input[2]
          /\ rn_new_alias = input[3]
    /\ rn_result = None
    /\ rn_back = None
    /\ rn_pc = "new"

IdleRename ==
    /\ rn_text = <<>>
    /\ rn_old_alias = <<>>
    /\ rn_new_alias = <<>>
    /\ rn_result = None
    /\ rn_back = None
    /\ rn_pc = "new"

\* _replace_alias_in_string(text, old_alias, new_alias).
Rename ==
    /\ rn_pc = "new"
    /\ rn_result' = ReplaceAliasInString(rn_text, rn_old_alias, rn_new_alias)
    /\ rn_pc' = "renamed"
    /\ UNCHANGED <<rn_text, rn_old_alias, rn_new_alias, rn_back>>
    /\ UNCHANGED outside_rename

\* _replace_alias_in_string(result, new_alias, old_alias): the way back.
RenameBack ==
    /\ rn_pc = "renamed"
    /\ rn_back' = ReplaceAliasInString(rn_result, rn_new_alias, rn_old_alias)
    /\ rn_pc' = "back"
    /\ UNCHANGED <<rn_text, rn_old_alias, rn_new_alias, rn_result>>
    /\ UNCHANGED outside_rename

NextRename ==
    \/ Rename
    \/ RenameBack

\* ======================================================================
\* Excel export: export_excel of conversions.py and of excel_utils.py (the
\* same code), and the single-file export of DuckConvert.process_file.
\* A path of the output directory is <<stem>> for out_file, <<stem, n>> for
\* stem_n.xlsx and <<stem, n, c>> for stem_n_c.xlsx.  The rows of the query are
\* numbered from 0 in the order the engine yields them.
\* ======================================================================
ExcelFunctions == {"conversions.export_excel", "ExcelUtils.export_excel", "process_file"}

\* row_limit and margin (1048576 and 100 by default), scaled down; the
\* effective limit row_limit - margin stays positive.
RowLimits == {3, 4}
Margins == {1, 2}

OutFile == <<"out">>

\* Files that may exist in the output directory before the export.
ExistingFiles == {OutFile, <<"out", 1>>, <<"out", 1, 1>>, <<"out", 2>>}

EffectiveLimit == ex_row_limit - ex_margin

\* parts = (row_count + effective_limit - 1) // effective_limit
PartsFloor == ex_row_count \div EffectiveLimit
Parts == (ex_row_count + EffectiveLimit - 1) \div EffectiveLimit

\* The rows of base_query, and of "base_query LIMIT limit OFFSET offset".
Table == [i \in 1..ex_row_count |-> i - 1]

LimitOffset(table, limit, offset) ==
    SubSeq(table, offset + 1, IF offset + limit < Len(table) THEN offset + limit ELSE Len(table))

\* out_file_part, then the while loop over counter until the path is unused.
UniqueOutFile(files, part) ==
    IF <<"out", part + 1>> \notin files
    THEN <<"out", part + 1>>
    ELSE LET unused == {c \in 1..(Cardinality(files) + 1) : <<"out", part + 1, c>> \notin files}
         IN  <<"out", part + 1, CHOOSE c \in unused : \A d \in unused : c <= d>>

\* COPY (...) TO path: the file is written whether or not the path exists.
CopyTo(path, rows) ==
    /\ ex_written' = Append(ex_written, [path |-> path, rows |-> rows,
                                         existed |-> path \in ex_files])
    /\ ex_files' = ex_files \cup {path}

InitExcel ==
    /\ ex_function \in ExcelFunctions
    /\ ex_files \in SUBSET ExistingFiles
    /\ ex_row_count \in 0..MaxRows
    /\ ex_row_limit \in RowLimits
    /\ ex_margin \in Margins
    /\ ex_part = 0
    /\ ex_written = <<>>
    /\ ex_pc = "new"

IdleExcel ==
    /\ ex_function = "process_file"
    /\ ex_files = {}
    /\ ex_row_count = 0
    /\ ex_row_limit = 4
    /\ ex_margin = 1
    /\ ex_part = 0
    /\ ex_written = <<>>
    /\ ex_pc = "new"

\* export_excel up to the loop: the count, and the single export.
ExportExcel ==
    /\ ex_pc = "new"
    /\ ex_function # "process_file"
    /\ IF ex_row_count <= EffectiveLimit
       THEN /\ CopyTo(OutFile, Table)
            /\ ex_pc' = "done"
       ELSE /\ ex_pc' = "parts"
            /\ UNCHANGED <<ex_written, ex_files>>
    /\ UNCHANGED <<ex_function, ex_row_count, ex_row_limit, ex_margin, ex_part>>
    /\ UNCHANGED outside_excel

\* One iteration of `for part in range(parts)`.
ExportPart ==
    /\ ex_pc = "parts"
    /\ ex_part < Parts
    /\ LET offset == ex_part * EffectiveLimit
           part_rows == LimitOffset(Table, EffectiveLimit, offset)
           part_count == Len(part_rows)
       IN  IF part_count > EffectiveLimit
           THEN /\ ex_pc' = "raised"
                /\ UNCHANGED <<ex_written, ex_files, ex_part>>
           ELSE IF part_count = 0
           THEN /\ ex_pc' = "done"
                /\ UNCHANGED <<ex_written, ex_files, ex_part>>
           ELSE /\ CopyTo(UniqueOutFile(ex_files, ex_part), part_rows)
                /\ ex_part' = ex_part + 1
                /\ ex_pc' = "parts"
    /\ UNCHANGED <<ex_function, ex_row_count, ex_row_limit, ex_margin>>
    /\ UNCHANGED outside_excel

\* range(parts) is exhausted.
ExportReturn ==
    /\ ex_pc = "parts"
    /\ ex_part >= Parts
    /\ ex_pc' = "done"
    /\ UNCHANGED <<ex_function, ex_files, ex_row_count, ex_row_limit, ex_margin, ex_part,
                   ex_written>>
    /\ UNCHANGED outside_excel

\* DuckConvert.process_file: output_file is computed and written to.
ProcessFile ==
    /\ ex_pc = "new"
    /\ ex_function = "process_file"
    /\ CopyTo(OutFile, Table)
    /\ ex_pc' = "done"
    /\ UNCHANGED <<ex_function, ex_row_count, ex_row_limit, ex_margin, ex_part>>
    /\ UNCHANGED outside_excel

NextExcel ==
    \/ ExportExcel
    \/ ExportPart
    \/ ExportReturn
    \/ ProcessFile

\* ======================================================================
\* Staging handles: ConversionData.__init__ and _create_unique_table_name of
\* Make_It_Parquet/conversion_data.py.  Strings are sequences of characters.
\* ======================================================================
\* file_path.name of the imported files: two files of one stem, and the same
\* name twice (files of two directories, or one file imported twice).
StagedFileNames == {<<"a", ".", "c">>, <<"a", ".", "j">>, <<"b", ".", "c">>}

\* uuid.uuid4().hex[:8]: random hexadecimal digits, here two of them.
HexSuffixes == {<<"0", "a">>, <<"0", "b">>}

\* f"{name}_{uuid.uuid4().hex[:8]}"
CreateUniqueTableName(name, hex) == name \o <<"_">> \o hex

InitStaging == st_handles = <<>>

IdleStaging == st_handles = <<>>

\* ConversionData(input_ext, file_path): one more handle in the run.
CreateConversionData ==
    /\ Len(st_handles) < MaxFiles
    /\ \E name \in StagedFileNames, hex \in HexSuffixes :
          st_handles' = Append(st_handles,
                               [name |-> name,
                                table_name |-> CreateUniqueTableName(name, hex)])
    /\ UNCHANGED outside_staging

NextStaging == CreateConversionData

\* ======================================================================
\* The process exit: main() and exit_program of the three entry modules, and
\* the exit_program of the settings the managers call on a fatal condition.
\* ======================================================================
MainModules == {"Make_It_Parquet/main.py", "Make_It_Parquet/make_it_parquet.py",
                "make_it_parquet.py"}

\* The fatal condition a manager can meet for each kind of input.
FatalConditions(kind) ==
    IF kind = "file" THEN {"invalid_file_extension"} ELSE {"no_compatible_files"}

\* The level exit_program logs at: error_type when it is "error" or
\* "exception"; otherwise Settings.exit_program logs at info and
\* MakeItParquet.exit_program logs nothing.
LoggedAt(owner, error_type) ==
    IF error_type \in {"error", "exception"} THEN <<error_type>>
    ELSE IF owner = "Settings" THEN <<"info">> ELSE <<>>

\* exit_program(message, error_type): log, stop logging, exit(1).
ExitProgram(owner, message, error_type) ==
    /\ mp_log' = mp_log \o [i \in 1..Len(LoggedAt(owner, error_type)) |->
                               <<LoggedAt(owner, error_type)[i], message>>]
    /\ mp_exit_code' = 1
    /\ mp_pc' = "exited"

InitExit ==
    /\ mp_module \in MainModules
    /\ mp_input_kind \in {"file", "directory"}
    /\ mp_condition \in {"none"} \cup FatalConditions(mp_input_kind)
    /\ mp_files \in 1..(IF mp_input_kind = "file" THEN 1 ELSE MaxFiles)
    /\ mp_skipped \in 0..(IF mp_condition = "none" THEN mp_files ELSE 0)
    /\ mp_log = <<>>
    /\ mp_exit_code = None
    /\ mp_pc = "main"

IdleExit ==
    /\ mp_module = "make_it_parquet.py"
    /\ mp_input_kind = "file"
    /\ mp_condition = "none"
    /\ mp_files = 1
    /\ mp_skipped = 0
    /\ mp_log = <<>>
    /\ mp_exit_code = None
    /\ mp_pc = "main"

\* mp = MakeItParquet(): the managers run; on a fatal condition they call
\* exit_program (of the settings in Make_It_Parquet/main.py and
\* make_it_parquet.py, of MakeItParquet in Make_It_Parquet/make_it_parquet.py).
Construct ==
    /\ mp_pc = "main"
    /\ IF mp_condition = "none"
       THEN /\ mp_pc' = "constructed"
            /\ UNCHANGED <<mp_log, mp_exit_code>>
       ELSE LET owner == IF mp_module = "Make_It_Parquet/make_it_parquet.py"
                         THEN "MakeItParquet" ELSE "Settings"
                default == IF mp_module = "Make_It_Parquet/main.py" THEN "info" ELSE "error"
            IN  IF mp_condition = "no_compatible_files"
                THEN ExitProgram(owner, "No compatible file types found", "error")
                ELSE ExitProgram(owner, "Invalid file extension", default)
    /\ UNCHANGED <<mp_module, mp_input_kind, mp_condition, mp_files, mp_skipped>>
    /\ UNCHANGED outside_exit

\* mp.exit_program("Conversion complete."): the last statement of main().
MainExit ==
    /\ mp_pc = "constructed"
    /\ ExitProgram("MakeItParquet", "Conversion complete.", "error")
    /\ UNCHANGED <<mp_module, mp_input_kind, mp_condition, mp_files, mp_skipped>>
    /\ UNCHANGED outside_exit

NextExit ==
    \/ Construct
    \/ MainExit

\* ======================================================================
\* Validation of the formats of the command line:
\* get_input_output_extensions (user_interface/cli_parser.py), which records
\* its result in InputOutputFlags (user_interface/settings.py), and
\* Settings._validate_format_inputs (cli_interface.py).
\* ======================================================================
CliFunctions == {"get_input_output_extensions", "_validate_format_inputs"}

\* args.input_format / args.output_format: absent, empty, aliases, and words
\* that are no alias.
CliArguments == {None, "", "csv", "js", "json", "parquet", "invalid", "CSV"}

\* environment arguments of set_flags.
Environments == {"cli", "prompt", "auto", "invalid"}

\* InputOutputFlags.__init__.
InputOutputFlagsInit ==
    [input_ext_supplied_from_cli |-> FALSE,
     output_ext_supplied_from_cli |-> FALSE,
     input_ext_auto_detected |-> FALSE,
     output_ext_supplied_from_prompt |-> FALSE,
     input_ext_supplied_from_prompt |-> FALSE]

\* InputOutputFlags.set_cli_flags.
SetCliFlags(flags, in_ext, out_ext) ==
    [flags EXCEPT !.input_ext_supplied_from_cli = in_ext # None,
                  !.output_ext_supplied_from_cli = out_ext # None]

\* InputOutputFlags.set_flags: the flags after the call and the exception
\* raised.  The class defines neither set_prompt_flags nor set_auto_flags, so
\* the calls of the "prompt" and "auto" branches raise AttributeError.
SetFlags(flags, environment, in_ext, out_ext) ==
    CASE environment = "cli" ->
            [flags |-> SetCliFlags(flags, in_ext, out_ext), raised |-> None]
      [] environment \in {"prompt", "auto"} ->
            [flags |-> flags, raised |-> "AttributeError"]
      [] OTHER ->
            [flags |-> flags, raised |-> "ValueError"]

\* Settings._validate_format_inputs of cli_interface.py: the extensions and
\* the two cli flags.
ValidateFormatInputs(input_format, output_format, root_flags) ==
    LET in_ext == IF input_format \notin {None, ""} /\ input_format \in Aliases
                  THEN ALIAS_TO_EXTENSION_MAP[input_format] ELSE None
        out_ext == IF output_format \notin {None, ""} /\ output_format \in Aliases
                   THEN ALIAS_TO_EXTENSION_MAP[output_format] ELSE None
        same == in_ext # None /\ out_ext # None /\ in_ext = out_ext
    IN  [input_ext |-> IF same THEN None ELSE in_ext,
         output_ext |-> IF same THEN None ELSE out_ext,
         flags |-> [input_ext_cli_flag |-> IF in_ext # None /\ ~same THEN 1 ELSE 0,
                    output_ext_cli_flag |-> IF same THEN 0 ELSE root_flags.output_ext_cli_flag]]

InitCli ==
    /\ cli_function \in CliFunctions
    /\ cli_input_format \in CliArguments
    /\ cli_output_format \in CliArguments
    /\ cli_input_ext = None
    /\ cli_output_ext = None
    /\ cli_flags = InputOutputFlagsInit
    /\ cli_root_flags = [input_ext_cli_flag |-> 0, output_ext_cli_flag |-> 0]
    /\ cli_pc = "new"
    /\ fl_environment = None
    /\ fl_input_ext = None
    /\ fl_output_ext = None
    /\ fl_before = InputOutputFlagsInit
    /\ fl_raised = None

IdleCli ==
    /\ cli_function = "get_input_output_extensions"
    /\ cli_input_format = None
    /\ cli_output_format = None
    /\ cli_input_ext = None
    /\ cli_output_ext = None
    /\ cli_flags = InputOutputFlagsInit
    /\ cli_root_flags = [input_ext_cli_flag |-> 0, output_ext_cli_flag |-> 0]
    /\ cli_pc = "new"
    /\ fl_environment = None
    /\ fl_input_ext = None
    /\ fl_output_ext = None
    /\ fl_before = InputOutputFlagsInit
    /\ fl_raised = None

\* get_input_output_extensions(args, input_output_flags), set_flags("cli", ...)
\* included.
CallGetInputOutputExtensions ==
    /\ cli_pc = "new"
    /\ cli_function = "get_input_output_extensions"
    /\ LET exts == GetInputOutputExtensions(cli_input_format, cli_output_format)
           set == SetFlags(cli_flags, "cli", exts[1], exts[2])
       IN  /\ cli_input_ext' = exts[1]
           /\ cli_output_ext' = exts[2]
           /\ cli_flags' = set.flags
           /\ fl_raised' = set.raised
           /\ fl_environment' = "cli"
           /\ fl_input_ext' = exts[1]
           /\ fl_output_ext' = exts[2]
           /\ fl_before' = cli_flags
    /\ cli_pc' = "validated"
    /\ UNCHANGED <<cli_function, cli_input_format, cli_output_format, cli_root_flags>>
    /\ UNCHANGED outside_cli

\* Settings._validate_format_inputs().
CallValidateFormatInputs ==
    /\ cli_pc = "new"
    /\ cli_function = "_validate_format_inputs"
    /\ LET validated == ValidateFormatInputs(cli_input_format, cli_output_format,
                                             cli_root_flags)
       IN  /\ cli_input_ext' = validated.input_ext
           /\ cli_output_ext' = validated.output_ext
           /\ cli_root_flags' = validated.flags
    /\ cli_pc' = "validated"
    /\ UNCHANGED <<cli_function, cli_input_format, cli_output_format, cli_flags,
                   fl_environment, fl_input_ext, fl_output_ext, fl_before, fl_raised>>
    /\ UNCHANGED outside_cli

\* input_output_flags.set_flags(environment, input_ext, output_ext) by a later
\* caller, such as DirectoryManager._set_input_extension_and_file_list.
CallSetFlags ==
    /\ cli_pc = "validated"
    /\ cli_function = "get_input_output_extensions"
    /\ \E environment \in Environments, in_ext \in {None, ".csv"},
          out_ext \in {None, ".parquet"} :
          LET set == SetFlags(cli_flags, environment, in_ext, out_ext)
          IN  /\ cli_flags' = set.flags
              /\ fl_raised' = set.raised
              /\ fl_environment' = environment
              /\ fl_input_ext' = in_ext
              /\ fl_output_ext' = out_ext
              /\ fl_before' = cli_flags
    /\ UNCHANGED <<cli_function, cli_input_format, cli_output_format, cli_input_ext,
                   cli_output_ext, cli_root_flags, cli_pc>>
    /\ UNCHANGED outside_cli

NextCli ==
    \/ CallGetInputOutputExtensions
    \/ CallValidateFormatInputs
    \/ CallSetFlags

\* ======================================================================
\* ConversionData.generate_output_path, replace_alias_in_string and replacer
\* of Make_It_Parquet/conversion_data.py.  A path is its parent and its name;
\* names are sequences of characters.
\* ======================================================================
\* ConversionData.replace_alias_in_string(target_string, alias): the pattern
\* is compiled from target_string and substituted in target_string.
ConversionDataReplaceAliasInString(target_string, alias) ==
    LET subn == Subn(target_string, target_string, alias)
    IN  IF subn.count > 0 THEN subn.result ELSE target_string

\* ConversionData.generate_output_path(input_key, output_key, input_path).
GenerateOutputPath(input_key, output_key, input_path) ==
    LET original_name == input_path.name
        new_name == IF input_key # <<>> /\ OccursIn(input_key, original_name)
                    THEN ConversionDataReplaceAliasInString(original_name, output_key)
                    ELSE original_name \o <<"_">> \o output_key
    IN  [parent |-> input_path.parent, name |-> new_name]

\* Parent directories, and the names of the folders or files.
ParentDirectories == {"/data", "/data/in"}
PathNames == (BoundedTexts \ {<<>>}) \cup ExampleTexts

InitOutputPath ==
    /\ \E name \in PathNames, parent \in ParentDirectories :
          /\ cd_input_path = [parent |-> parent, name |-> name]
          /\ \/ name \in ExampleTexts /\ cd_input_key = Csv /\ cd_output_key = Json
             \/ name \notin ExampleTexts /\ cd_input_key \in OldAliases
                                          /\ cd_output_key \in NewAliases
    /\ cd_output_path = None
    /\ cd_pc = "new"

IdleOutputPath ==
    /\ cd_input_key = Csv
    /\ cd_output_key = Json
    /\ cd_input_path = [parent |-> "/data", name |-> <<"_">>]
    /\ cd_output_path = None
    /\ cd_pc = "new"

CallGenerateOutputPath ==
    /\ cd_pc = "new"
    /\ cd_output_path' = GenerateOutputPath(cd_input_key, cd_output_key, cd_input_path)
    /\ cd_pc' = "done"
    /\ UNCHANGED <<cd_input_key, cd_output_key, cd_input_path>>
    /\ UNCHANGED outside_output_path

NextOutputPath == CallGenerateOutputPath

\* ======================================================================
\* BaseConversionManager._generate_export_class of conversion_manager.py,
\* called by FileConversionManager.__init__ once _determine_output_extension
\* has returned.
\* ======================================================================
\* The keys of export_class_map and the classes they map to.
export_class_map ==
    [key \in {"csv", "tsv", "txt", "json", "parquet", "excel"} |->
        CASE key = "csv" -> "CSVOutput"
          [] key = "tsv" -> "TsvOutput"
          [] key = "txt" -> "TxtOutput"
          [] key = "json" -> "JSONOutput"
          [] key = "parquet" -> "ParquetOutput"
          [] key = "excel" -> "ExcelOutput"]

\* _generate_export_class for self.output_ext = ext: the class instantiated,
\* or the ValueError raised.
ExportClassOf(ext) ==
    IF ext \in DOMAIN export_class_map THEN export_class_map[ext] ELSE "ValueError"

IdleExport == export_class = None

\* self.export_class = self._generate_export_class()
FileConversionManagerGenerateExportClass ==
    /\ prompt_pc = "returned"
    /\ export_class = None
    /\ export_class' = ExportClassOf(output_ext)
    /\ UNCHANGED outside_export

IdleLater == IdleExcel /\ IdleStaging /\ IdleExit /\ IdleCli /\ IdleOutputPath /\ IdleExport

IdleEarlier ==
    IdleScheduler /\ IdleSettings /\ IdleManager /\ IdleDirectory /\ IdlePath /\ IdleRename

\* ======================================================================
\* Specifications
\* ======================================================================
Init == InitScheduler /\ IdleSettings /\ IdleManager /\ IdleDirectory /\ IdlePath /\ IdleRename /\ IdleLater

Next ==
    \/ StartConversionProcess
    \/ LoopTest
    \/ BulkTest
    \/ BulkImport
    \/ BulkCheck
    \/ Drain
    \/ BalancedImport
    \/ BalancedExport
    \/ DetermineOutputExtension
    \/ PromptForOutputFormat
    \/ FileConversionManagerGenerateExportClass

Spec == Init /\ [][Next]_vars

SettingsInit == IdleScheduler /\ InitSettings /\ IdleManager /\ IdleDirectory /\ IdlePath /\ IdleRename /\ IdleLater
SettingsSpec == SettingsInit /\ [][NextSettings]_vars

ManagerInit == IdleScheduler /\ IdleSettings /\ InitManager /\ IdleDirectory /\ IdlePath /\ IdleRename /\ IdleLater
ManagerSpec == ManagerInit /\ [][NextManager]_vars

\* A directory of seven .csv and three .json files, in two scan orders (file i
\* has size i), handed to DirectoryManager; the scheduler then starts with the
\* import queue holding the conversion file list, no output format given.
ScenarioExtensions ==
    {<<".csv", ".json", ".csv", ".csv", ".json", ".csv", ".csv", ".json", ".csv", ".csv">>,
     <<".json", ".csv", ".csv", ".json", ".csv", ".csv", ".json", ".csv", ".csv", ".csv">>}

ScenarioDirectories ==
    {[i \in DOMAIN e |-> FileInfo(i, e[i], i)] : e \in ScenarioExtensions}

\* DirectoryManager._set_conversion_file_list as one step: the three steps of
\* the constructor on a directory that is not ambiguous.
SetConversionFileList(files) ==
    OrderFilesBySize(GroupOf(FileGroups(files), GroupFilesByExtension(files)[1][1]))

ScenarioInit ==
    /\ IdleSettings /\ IdleManager /\ IdlePath /\ IdleRename /\ IdleLater
    /\ dm_class = "DirectoryManager"
    /\ dm_settings_input_ext = None
    /\ directory \in ScenarioDirectories
    /\ extension_counts = GroupFilesByExtension(directory)
    /\ extension_file_groups = FileGroups(directory)
    /\ dm_input_ext = extension_counts[1][1]
    /\ dm_output_ext = None
    /\ conversion_file_list = SetConversionFileList(directory)
    /\ dm_prompted = None
    /\ dm_auto_flag = TRUE
    /\ dm_import_queue = <<>>
    /\ dm_pc = "built"
    /\ inventory = [i \in DOMAIN conversion_file_list |-> i]
    /\ import_queue = inventory
    /\ export_queue = <<>>
    /\ unfinished = [imp |-> Len(inventory), exp |-> 0]
    /\ input_ext = dm_input_ext
    /\ output_ext = None
    /\ mode = "none"
    /\ pc = "start"
    /\ file_info = 0
    /\ calls = <<>>
    /\ log = <<>>
    /\ prompt_pc = "idle"
    /\ prompt_input_ext = None
    /\ prompt_flags = [output |-> 0, input |-> 0]
    /\ resolved_at = "never"

ScenarioSpec == ScenarioInit /\ [][Next]_vars

DirectoryInit ==
    IdleScheduler /\ IdleSettings /\ IdleManager /\ InitDirectory /\ IdlePath /\ IdleRename /\ IdleLater
DirectorySpec == DirectoryInit /\ [][NextDirectory]_vars

PathInit ==
    IdleScheduler /\ IdleSettings /\ IdleManager /\ IdleDirectory /\ InitPath /\ IdleRename /\ IdleLater
PathSpec == PathInit /\ [][NextPath]_vars

RenameInit ==
    IdleScheduler /\ IdleSettings /\ IdleManager /\ IdleDirectory /\ IdlePath /\ InitRename /\ IdleLater
RenameSpec == RenameInit /\ [][NextRename]_vars

\* ------------------------------------------------- what the run has done
Files == 1..Len(inventory)

Count(op, f) ==
    Cardinality({i \in DOMAIN calls : calls[i].op = op /\ calls[i].file = f})

ImportedOk(f) == \E i \in DOMAIN calls : calls[i] = ImportCall(f, TRUE)
ImportFailed(f) == \E i \in DOMAIN calls : calls[i] = ImportCall(f, FALSE)

\* The files of the export items waiting on the export queue.
Queued == {export_queue[i].file_info : i \in DOMAIN export_queue}

\* Staging handles the scheduler still holds: imported, not yet handed to an export.
Unexported == {f \in Files : ImportedOk(f) /\ Count("export", f) = 0}

\* The output extension was already stored when the scheduler started.
SetAtStart == resolved_at \in {"cli", "start"}

\* The exports issued so far, as the sequence of their files.
RECURSIVE ExportsOf(_)
ExportsOf(cs) ==
    IF cs = <<>> THEN <<>>
    ELSE IF Head(cs).op = "export" THEN <<Head(cs).file>> \o ExportsOf(Tail(cs))
    ELSE ExportsOf(Tail(cs))

\* ------------------------------------------------------------------ claims

\* C1 (as stated): whatever the moment the output format becomes set, once the
\* scheduler has returned every file whose import succeeded has been exported
\* exactly once and its staging table dropped exactly once.
C1_ExactlyOnce ==
    (pc = "done" /\ resolved_at # "never") =>
        \A f \in Files :
            ImportedOk(f) => Count("export", f) = 1 /\ Count("drop", f) = 1

\* C2: exports are issued in inventory order: of two exports the earlier one
\* is of the file that is earlier in the inventory.
C2_ExportsInInventoryOrder ==
    \A i, j \in DOMAIN calls :
        (i < j /\ calls[i].op = "export" /\ calls[j].op = "export")
            => calls[i].file < calls[j].file

\* C2 witness: inventory [f1, f2, f3], the output format stored after f1 was
\* imported (f1 was buffered, f2 and f3 were not), all three exported.
C2_Witness ==
    /\ pc = "done"
    /\ Len(inventory) = 3
    /\ ExportsOf(calls) = <<1, 2, 3>>
    /\ \E i, j \in DOMAIN calls :
        /\ calls[i].op = "export" /\ calls[i].file = 1 /\ calls[i].ext = None
        /\ calls[j].op = "export" /\ calls[j].file = 2 /\ calls[j].ext # None

\* C3: with the output format set when the scheduler starts nothing is ever
\* put on the export queue, and a one-file inventory ends after exactly one
\* import and, when that import succeeded, exactly one export right after it.
C3_SetAtStartStreams ==
    SetAtStart =>
        /\ export_queue = <<>>
        /\ \A i \in DOMAIN calls : calls[i].op = "export" => calls[i].ext # None
        /\ (pc = "done" /\ Len(inventory) = 1) =>
                \/ \E ok \in BOOLEAN :
                      calls = <<ImportCall(1, TRUE),
                                ExportCall([file_info |-> 1, output_extension |-> output_ext], ok)>>
                \/ calls = <<ImportCall(1, FALSE)>>

\* C3 witness: one file, output format passed up front, one import and one
\* export, scheduler returned.
C3_Witness ==
    /\ pc = "done"
    /\ resolved_at = "cli"
    /\ Len(inventory) = 1
    /\ Len(calls) = 2
    /\ calls[2].op = "export" /\ calls[2].ok

\* C4 (as stated): the scheduler returns only with both queues empty.
C4_DoneOnlyWhenDrained ==
    pc = "done" => import_queue = <<>> /\ export_queue = <<>>

\* C5 (as stated): with files to convert and the output format never
\* supplied, the run does not end as a normal return of the scheduler.
C5_NeverSuppliedIsFatal ==
    ~(pc = "done" /\ inventory # <<>> /\ output_ext = None)

\* C6: a file whose import failed is never on the export queue and never
\* exported, and when the scheduler returns every file of the inventory has
\* been handed to import exactly once.
C6_ImportFailureSkipsFile ==
    /\ \A f \in Files :
        ImportFailed(f) => f \notin Queued /\ Count("export", f) = 0 /\ file_info # f
    /\ pc = "done" => \A f \in Files : Count("import", f) = 1

\* C6 witness: three files; the first fails while buffering, the second is
\* imported, the third fails while streaming; the scheduler returned.
C6_Witness ==
    /\ pc = "done"
    /\ Len(inventory) = 3
    /\ ImportFailed(1) /\ ImportedOk(2) /\ ImportFailed(3)
    /\ \E i \in DOMAIN log : log[i] = Info("Bulk importing", 1)
    /\ \E i \in DOMAIN log : log[i] = Info("Balanced import of", 3)

\* C7 (as stated): when the scheduler returns, every export that failed was
\* logged as an error and followed by a drop of the same staging table, and
\* the files behind it were still handled.
C7_FailedExportStillDropped ==
    pc = "done" =>
        \A i \in DOMAIN calls :
            (calls[i].op = "export" /\ ~calls[i].ok) =>
                /\ \E k \in DOMAIN log :
                      log[k] \in {Error("Error exporting", calls[i].file),
                                  Error("Error exporting (balanced)", calls[i].file)}
                /\ \E j \in DOMAIN calls :
                      j > i /\ calls[j].op = "drop" /\ calls[j].file = calls[i].file

\* C8: in balanced mode the export queue is empty and the scheduler holds at
\* most one staging handle, the one of the file it is about to export.
C8_BalancedNoBuffering ==
    mode = "balanced" =>
        /\ export_queue = <<>>
        /\ Unexported \subseteq {file_info}
        /\ Cardinality(Unexported) <= 1
        /\ (pc = "balanced_export") = (file_info # 0)

\* C8 witness: two files were buffered and drained, and the third is imported
\* and held for its export.
C8_Witness ==
    /\ mode = "balanced"
    /\ pc = "balanced_export"
    /\ file_info = 3
    /\ ExportsOf(calls) = <<1, 2>>
    /\ calls[3].ext = None

\* C9 (as stated): once Settings.supplied_output_ext holds a value no step
\* changes it.
C9_OutputExtWrittenOnce ==
    [][supplied_output_ext # None => supplied_output_ext' = supplied_output_ext]_vars

\* The prompt of the manager returned with a choice.
PromptReturned ==
    /\ manager_pc \in {"export_class", "export_class_raised", "constructed"}
    /\ interactive_output_ext # None

\* C10 (as stated): after the prompt has returned with the user's choice, the
\* manager's output extension is that choice.
C10_PromptChoiceObserved ==
    PromptReturned => manager_output_ext = interactive_output_ext

\* ---------------------------------------------------- C11: the 7 + 3 scenario
\* The output format was stored when the first two files had been imported
\* (both imports succeeded) and the scheduler stood at its test before the
\* third import.
ResolvedAfterSecondImport ==
    /\ resolved_at = "bulk_test"
    /\ Len(calls) >= 2
    /\ calls[1] = ImportCall(1, TRUE)
    /\ calls[2] = ImportCall(2, TRUE)
    /\ Len(calls) >= 3 => calls[3].op # "import"

\* The imports issued after the two drained exports.
StreamedImports == {i \in DOMAIN calls : i > 4 /\ calls[i].op = "import"}

\* Two handles are pending when the format is stored; draining exports them
\* in arrival order.
DrainsTheTwoPending ==
    /\ (ResolvedAfterSecondImport /\ Len(calls) = 2) =>
          [i \in DOMAIN export_queue |-> export_queue[i].file_info] = <<1, 2>>
    /\ (ResolvedAfterSecondImport /\ pc = "done") =>
          /\ Len(calls) >= 4
          /\ calls[3].op = "export" /\ calls[3].file = 1
          /\ calls[4].op = "export" /\ calls[4].file = 2

\* After the drain every import is followed at once by the export of the same
\* file when it succeeded, and every export directly follows its import.
StreamsOneInOneOut ==
    (ResolvedAfterSecondImport /\ pc = "done") =>
        \A i \in DOMAIN calls :
            i > 4 =>
                IF calls[i].op = "import"
                THEN calls[i].ok =>
                        /\ i + 1 \in DOMAIN calls
                        /\ calls[i + 1].op = "export"
                        /\ calls[i + 1].file = calls[i].file
                ELSE calls[i - 1] = ImportCall(calls[i].file, TRUE)

Eligible == {i \in DOMAIN directory : directory[i].file_extension \in ALLOWED_FILE_EXTENSIONS}
FormatCount(ext) == Cardinality({i \in Eligible : directory[i].file_extension = ext})
Formats == {directory[i].file_extension : i \in Eligible}

\* The formats that hold the maximum count.
Leaders == {e \in Formats : \A o \in Formats : FormatCount(o) <= FormatCount(e)}

\* The majority detection has run.
Detected == dm_pc \in {"order", "built", "started", "order_raised", "convert",
                       "convert_raised"}

\* The detection signalled ambiguity (it asked for the input format).
SignalledAmbiguity == dm_prompted # None

ElementsOf(seq) == {seq[i] : i \in DOMAIN seq}

\* C12 (as stated): once the majority detection has run, ambiguity was
\* signalled if and only if two or more formats share the maximum count, and
\* with a single format of strictly highest count that format is the input
\* format and the inventory holds exactly its files.
C12_MajoritySelected ==
    Detected =>
        /\ SignalledAmbiguity <=> Cardinality(Leaders) >= 2
        /\ Cardinality(Leaders) = 1 =>
              /\ dm_input_ext \in Leaders
              /\ ElementsOf(conversion_file_list) =
                    {directory[i] : i \in {j \in Eligible :
                                            directory[j].file_extension \in Leaders}}

\* C13 (as stated): for a directory whose highest count is shared by two
\* formats and with no input format given on the command line, the detection
\* signals ambiguity and the run ends fatally there: no format is chosen, no
\* file enters the inventory or the import queue.
C13_TieIsFatal ==
    (Cardinality(Leaders) = 2 /\ dm_settings_input_ext = None
        /\ dm_pc \notin {"new", "detect"}) =>
        /\ SignalledAmbiguity
        /\ dm_pc = "exited"
        /\ dm_input_ext = None
        /\ conversion_file_list = <<>>
        /\ dm_import_queue = <<>>

\* ------------------------------------------------------- the path manager
\* The aliases that hold the maximum count among the recognised files of the
\* directory.
AliasCount(alias) ==
    Cardinality({i \in DOMAIN pm_suffixes :
                    /\ SuffixLower(pm_suffixes[i]) \in DOMAIN NAMING_EXT_MAP
                    /\ NAMING_EXT_MAP[SuffixLower(pm_suffixes[i])] = alias})
DirectoryAliases == {a \in {NAMING_EXT_MAP[e] : e \in DOMAIN NAMING_EXT_MAP} : AliasCount(a) > 0}
TopAliases == {a \in DirectoryAliases : \A b \in DirectoryAliases : AliasCount(b) <= AliasCount(a)}

\* C14 (as stated): when two or more aliases share the maximum count,
\* infer_majority_alias_in_directory does not return one of them.
C14_TieNotResolved ==
    (pm_pc # "new" /\ Cardinality(TopAliases) >= 2) => pm_input_alias \notin TopAliases

\* The result of the detection that scans the whole directory.
FullScanResult ==
    IF dm_pc = "exited" THEN "fatal"
    ELSE IF SignalledAmbiguity THEN "ambiguous"
    ELSE dm_input_ext

\* C15 (as stated): the detector that returns as soon as the leader's count
\* exceeds the second-highest count plus the files not scanned yet gives the
\* result of the detector that scans the whole directory.
C15_EarlyExitSameResult ==
    (Detected \/ dm_pc = "exited") => FullScanResult = EarlyExitDetector(directory)

\* The constructor is past its _order_files_by_size.
Ordered == dm_pc \in {"built", "started", "order_raised", "convert", "convert_raised"}

\* C16 (as stated): once the inventory is built and ordered, the conversion
\* file list is in non-increasing order of file size, and files put on the
\* import queue are put there in that order.
C16_LargestFirst ==
    Ordered =>
        /\ \A i, j \in DOMAIN conversion_file_list :
              i < j => conversion_file_list[i].file_size >= conversion_file_list[j].file_size
        /\ (dm_pc = "started" /\ dm_import_queue # <<>>) =>
              dm_import_queue = conversion_file_list

ExcelInit == IdleEarlier /\ InitExcel /\ IdleStaging /\ IdleExit /\ IdleCli /\ IdleOutputPath /\ IdleExport

StagingInit == IdleEarlier /\ IdleExcel /\ InitStaging /\ IdleExit /\ IdleCli /\ IdleOutputPath /\ IdleExport

ExitInit == IdleEarlier /\ IdleExcel /\ IdleStaging /\ InitExit /\ IdleCli /\ IdleOutputPath /\ IdleExport
ExitSpec == ExitInit /\ [][NextExit]_vars

CliInit == IdleEarlier /\ IdleExcel /\ IdleStaging /\ IdleExit /\ InitCli /\ IdleOutputPath /\ IdleExport
CliSpec == CliInit /\ [][NextCli]_vars

OutputPathInit == IdleEarlier /\ IdleExcel /\ IdleStaging /\ IdleExit /\ IdleCli /\ InitOutputPath /\ IdleExport
OutputPathSpec == OutputPathInit /\ [][NextOutputPath]_vars
StagingSpec == StagingInit /\ [][NextStaging]_vars
ExcelSpec == ExcelInit /\ [][NextExcel]_vars

\* ------------------------------------------------------ the alias renamer
\* The occurrences of alias in text that a scan from left to right meets:
\* an occurrence starts at p when text matches there, whatever the case, and
\* no earlier occurrence reaches into p.
OccurrenceStarts(text, alias) ==
    LET starts[p \in 1..Len(text)] ==
            /\ MatchesAt(text, alias, p)
            /\ \A q \in 1..(p - 1) : q + Len(alias) > p => ~starts[q]
    IN  {p \in 1..Len(text) : starts[p]}

\* The casing style of an occurrence, and new_alias rendered in a style.
CasingStyle(orig) ==
    IF \A i \in DOMAIN orig : IsUpperChar(orig[i]) THEN "upper"
    ELSE IF \A i \in DOMAIN orig : IsLowerChar(orig[i]) THEN "lower"
    ELSE IF IsUpperChar(orig[1]) /\ \A i \in 2..Len(orig) : IsLowerChar(orig[i])
    THEN "capitalized"
    ELSE "other"

Rendered(new_alias, style) ==
    CASE style = "upper" -> StrUpper(new_alias)
      [] style = "lower" -> StrLower(new_alias)
      [] style = "capitalized" -> StrCapitalize(new_alias)
      [] OTHER -> new_alias

\* result is text with every occurrence of old_alias replaced by new_alias in
\* the occurrence's casing style and every other character kept, in place.
SubstitutedInStyle(text, old_alias, new_alias, result) ==
    LET starts == OccurrenceStarts(text, old_alias)
        grow == Len(new_alias) - Len(old_alias)
        before(i) == Cardinality({p \in starts : p + Len(old_alias) - 1 < i})
        inside(i) == \E p \in starts : p <= i /\ i <= p + Len(old_alias) - 1
        shift(i) == i + before(i) * grow
    IN  /\ Len(result) = Len(text) + Cardinality(starts) * grow
        /\ \A i \in 1..Len(text) : ~inside(i) => result[shift(i)] = text[i]
        /\ \A p \in starts :
              SubSeq(result, shift(p), shift(p) + Len(new_alias) - 1) =
                  Rendered(new_alias,
                           CasingStyle(SubSeq(text, p, p + Len(old_alias) - 1)))

\* C17: when old_alias occurs in text, the result has new_alias in the casing
\* style of each occurrence in its place and the rest of the text unchanged;
\* DATA_CSV_EXPORT, data_csv and Data_Csv become DATA_JSON_EXPORT, data_json
\* and Data_Json.
C17_CasingPreserved ==
    (rn_pc # "new" /\ OccursIn(rn_old_alias, rn_text)) =>
        /\ SubstitutedInStyle(rn_text, rn_old_alias, rn_new_alias, rn_result)
        /\ rn_text = <<"D", "A", "T", "A", "_", "C", "S", "V", "_", "E", "X", "P", "O", "R", "T">>
              => rn_result = <<"D", "A", "T", "A", "_", "J", "S", "O", "N", "_", "E", "X",
                               "P", "O", "R", "T">>
        /\ rn_text = <<"d", "a", "t", "a", "_", "c", "s", "v">>
              => rn_result = <<"d", "a", "t", "a", "_", "j", "s", "o", "n">>
        /\ rn_text = <<"D", "a", "t", "a", "_", "C", "s", "v">>
              => rn_result = <<"D", "a", "t", "a", "_", "J", "s", "o", "n">>

\* C17 witness: Data_Csv was renamed from csv to json and came out as Data_Json.
C17_Witness ==
    /\ rn_pc = "renamed"
    /\ rn_text = <<"D", "a", "t", "a", "_", "C", "s", "v">>
    /\ rn_old_alias = Csv
    /\ rn_new_alias = Json
    /\ rn_result = <<"D", "a", "t", "a", "_", "J", "s", "o", "n">>

\* C18 (as stated): when old_alias does not occur in text the result is text,
\* an underscore and new_alias.
C18_FallbackUnderscore ==
    (rn_pc # "new" /\ ~OccursIn(rn_old_alias, rn_text)) =>
        rn_result = rn_text \o <<"_">> \o rn_new_alias

\* Where the occurrences of old_alias in text start once each has been
\* replaced by new_alias.
ShiftedStarts(text, old_alias, new_alias) ==
    LET starts == OccurrenceStarts(text, old_alias)
    IN  {p + Cardinality({q \in starts : q < p}) * (Len(new_alias) - Len(old_alias)) :
            p \in starts}

\* Renaming created no accidental match: the occurrences of new_alias in the
\* result are the substituted ones and no other.
NoAccidentalMatches(text, old_alias, new_alias, result) ==
    OccurrenceStarts(result, new_alias) = ShiftedStarts(text, old_alias, new_alias)

\* The casing styles of the occurrences of alias in text.
OccurrenceStyles(text, alias) ==
    {CasingStyle(SubSeq(text, p, p + Len(alias) - 1)) : p \in OccurrenceStarts(text, alias)}

RoundTripCase ==
    /\ rn_pc = "back"
    /\ OccursIn(rn_old_alias, rn_text)
    /\ rn_old_alias # rn_new_alias
    /\ NoAccidentalMatches(rn_text, rn_old_alias, rn_new_alias, rn_result)

\* C19 (as stated): renaming A to B and back gives the text again whenever A
\* occurs in it, whatever the casing of the occurrence, with A # B and no
\* accidental match.
C19_RoundTripAnyCasing ==
    RoundTripCase => rn_back = rn_text

\* C19 (amended): renaming A to B and back gives the text again whenever A
\* occurs in it, A # B, no accidental match is created, every occurrence of A
\* is all upper, all lower or capitalized, and B has at least two letters.
C19_RoundTripStyledCasing ==
    (/\ RoundTripCase
     /\ "other" \notin OccurrenceStyles(rn_text, rn_old_alias)
     /\ Len(rn_new_alias) >= 2) => rn_back = rn_text

\* C19 witness: a capitalized occurrence went to the other alias and back.
C19_Witness ==
    /\ RoundTripCase
    /\ OccurrenceStyles(rn_text, rn_old_alias) = {"capitalized"}
    /\ Len(rn_new_alias) >= 2
    /\ rn_result # rn_text
    /\ rn_back = rn_text

\* C20 (as stated): with old_alias = new_alias the result is the text itself,
\* whether or not the alias occurs in it.
C20_SameAliasIsIdentity ==
    (rn_pc # "new" /\ rn_old_alias = rn_new_alias) => rn_result = rn_text

\* An occurrence keeps its spelling when it is renamed to the same alias: it
\* is all upper, all lower or capitalized, or spelled as the alias is.
KeepsSpelling(text, alias) ==
    \A p \in OccurrenceStarts(text, alias) :
        \/ CasingStyle(SubSeq(text, p, p + Len(alias) - 1)) # "other"
        \/ SubSeq(text, p, p + Len(alias) - 1) = alias

\* C20 (amended): with old_alias = new_alias the result is the text itself
\* when the alias occurs in it and every occurrence is all upper, all lower,
\* capitalized or spelled as the alias is.
C20_SameAliasKeepsStyledText ==
    (/\ rn_pc # "new"
     /\ rn_old_alias = rn_new_alias
     /\ OccursIn(rn_old_alias, rn_text)
     /\ KeepsSpelling(rn_text, rn_old_alias)) => rn_result = rn_text

\* C20 witness: a text with a capitalized and an upper occurrence of the alias
\* was renamed to the same alias and came out as it was.
C20_Witness ==
    /\ rn_pc = "renamed"
    /\ rn_old_alias = rn_new_alias
    /\ {"capitalized", "upper"} \subseteq OccurrenceStyles(rn_text, rn_old_alias)
    /\ rn_result = rn_text

\* ------------------------------------------------------------ Excel export
\* C21 (as stated): no file is written to a path that existed when it was
\* written, for single exports as for the parts of a split export.
C21_NeverOverwrites ==
    \A i \in DOMAIN ex_written : ~ex_written[i].existed

RowsOf(file) == {file.rows[i] : i \in DOMAIN file.rows}

\* The least k with k * d >= n.
Ceiling(n, d) == CHOOSE k \in 0..n : (k - 1) * d < n /\ n <= k * d

C22_TableNamesUnique ==
    \A i, j \in DOMAIN st_handles :
        i # j => st_handles[i].table_name # st_handles[j].table_name

\* -------------------------------------------------------- the process exit
\* C23 (as stated): the exit code is 0 when the run completes, files skipped
\* or not, and non-zero only when it met a fatal condition.
C23_ExitCodeZeroIffCompleted ==
    mp_pc = "exited" => (mp_exit_code = 0 <=> mp_condition = "none")

\* --------------------------------------------- formats of the command line
\* C24: the validation returns (None, None) when both formats are supported
\* aliases of the same extension; otherwise each component is the extension
\* of its own format when that is a supported alias and None when it is
\* missing or unsupported, whatever the other format is.  The cases of
\* test_get_input_output_extensions are among them.
C24_ExtensionsOfFormats ==
    cli_pc = "validated" =>
        LET map == IF cli_function = "get_input_output_extensions"
                   THEN ExtensionMapping ELSE ALIAS_TO_EXTENSION_MAP
            supported(format) == format \in DOMAIN map
            extension(format) == IF supported(format) THEN map[format] ELSE None
            returned == <<cli_input_ext, cli_output_ext>>
            given == <<cli_input_format, cli_output_format>>
        IN  /\ IF /\ supported(cli_input_format)
                  /\ supported(cli_output_format)
                  /\ map[cli_input_format] = map[cli_output_format]
               THEN returned = <<None, None>>
               ELSE returned = <<extension(cli_input_format), extension(cli_output_format)>>
            /\ given = <<"csv", "parquet">> => returned = <<".csv", ".parquet">>
            /\ given = <<"csv", "csv">> => returned = <<None, None>>
            /\ given = <<"csv", "invalid">> => returned = <<".csv", None>>
            /\ given = <<"invalid", "parquet">> => returned = <<None, ".parquet">>
            /\ given = <<None, None>> => returned = <<None, None>>
            /\ given = <<None, "csv">> => returned = <<None, ".csv">>
            /\ given = <<"json", None>> => returned = <<".json", None>>

\* C24 witness: two different aliases of one extension were given and both
\* components came back as None.
C24_Witness ==
    /\ cli_pc = "validated"
    /\ cli_function = "get_input_output_extensions"
    /\ cli_input_format = "js"
    /\ cli_output_format = "json"
    /\ cli_input_ext = None
    /\ cli_output_ext = None

\* C25 (as stated): set_flags raises exactly when the environment is not
\* 'cli', 'prompt' or 'auto', a ValueError that leaves every flag unchanged;
\* with 'cli' the two cli flags tell whether the respective extension is not
\* None and the other three flags are unchanged.
C25_SetFlagsRaisesOnlyOnInvalid ==
    fl_environment # None =>
        /\ fl_raised # None <=> fl_environment \notin {"cli", "prompt", "auto"}
        /\ fl_raised # None => (fl_raised = "ValueError" /\ cli_flags = fl_before)
        /\ fl_environment = "cli" =>
              /\ cli_flags.input_ext_supplied_from_cli = (fl_input_ext # None)
              /\ cli_flags.output_ext_supplied_from_cli = (fl_output_ext # None)
              /\ cli_flags.input_ext_auto_detected = fl_before.input_ext_auto_detected
              /\ cli_flags.output_ext_supplied_from_prompt =
                     fl_before.output_ext_supplied_from_prompt
              /\ cli_flags.input_ext_supplied_from_prompt =
                     fl_before.input_ext_supplied_from_prompt

\* ------------------------------------------------- generate_output_path
\* C26 (as stated): for a name that contains the input format in any case,
\* the new name has the output format in the matching case in place of each
\* occurrence and every other character kept; for a name that does not, the
\* new name is the name, '_' and the output format; the parent is unchanged.
C26_OutputPathReplacesFormat ==
    cd_pc = "done" =>
        /\ cd_output_path.parent = cd_input_path.parent
        /\ IF OccursIn(cd_input_key, cd_input_path.name)
           THEN SubstitutedInStyle(cd_input_path.name, cd_input_key, cd_output_key,
                                   cd_output_path.name)
           ELSE cd_output_path.name = cd_input_path.name \o <<"_">> \o cd_output_key

\* -------------------------------------------------- the output-format prompt
\* C27 (as stated): when the output-format prompt has returned, the output
\* extension it stored is a supported extension and differs from the input
\* extension in force, also after the user changed the input format during
\* the prompt.
C27_PromptStoresDifferentExtension ==
    (prompt_pc = "returned" /\ prompt_flags.output = 1) =>
        /\ \E alias \in Aliases : output_ext = ALIAS_TO_EXTENSION_MAP[alias]
        /\ output_ext # input_ext

\* ------------------------------------------------------ the export class
\* The extensions format validation and the output prompt can store.
SupportedExtensions == {ALIAS_TO_EXTENSION_MAP[alias] : alias \in Aliases}

\* C28 (as stated): once _generate_export_class has been called, it returned
\* an exporter when the output extension is a value of ALIAS_TO_EXTENSION_MAP
\* and raised ValueError only when it is not.
C28_ExporterForEverySupportedExtension ==
    export_class # None =>
        (export_class = "ValueError" <=> output_ext \notin SupportedExtensions)

\* ------------------------------------------------ the allowed extensions
\* The range of extension_mapping.ALIAS_TO_EXTENSION_MAP.
MappedExtensions == {ExtensionMapping[alias] : alias \in DOMAIN ExtensionMapping}

\* The extensions extension_counts holds a tally for.
Tallied == {extension_counts[k][1] : k \in DOMAIN extension_counts}

\* C29 (as stated): every extension in the range of ALIAS_TO_EXTENSION_MAP is
\* allowed, so once DirectoryManager._group_files_by_extension has run every
\* file of the directory with such a suffix is tallied.
C29_SupportedSuffixesTallied ==
    (dm_class = "DirectoryManager" /\ dm_pc # "new") =>
        \A i \in DOMAIN directory :
            directory[i].file_extension \in MappedExtensions =>
                /\ directory[i].file_extension \in ALLOWED_FILE_EXTENSIONS
                /\ directory[i].file_extension \in Tallied


====
